---- MODULE Spec2Model ----
(***************************************************************************)
(* A model of the ENR (Entropy-Nexus-Revival) crate: the gossip bridge     *)
(* (EnrBridge: credit transfers, septal gates), the septal gate state      *)
(* machine with its healing manager and Woronin bodies, the credit state   *)
(* machine and the revival pool.  Each action is one public operation or   *)
(* one message handler of the source, taken atomically.                    *)
(***************************************************************************)
EXTENDS Integers, Sequences, FiniteSets, TLC

VARIABLES
    now,                \* the wall clock read by Timestamp::now(), in ms
    local_balance,      \* EnrBridge.local_balance, per bridge
    pending_transfers,  \* EnrBridge.pending_transfers, per bridge: TransferId -> CreditTransfer
    known_balances,     \* EnrBridge.known_balances, per bridge: NodeId -> Credits
    septal_gates,       \* EnrBridge.septal_gates, per bridge: NodeId -> SeptalGate
    gradients,          \* EnrBridge.gradients, per bridge: NodeId -> ResourceGradient
    topology,           \* EnrBridge.topology, per bridge: NodeId -> aggregated gradient
    publish_fn,         \* EnrBridge.publish_fn, per bridge: "none", or the closure's behaviour
    net,                \* what the publish primitives have accepted, in publish order
    delivered,          \* per published message and bridge: times handle_message ran on it
    pool,               \* the RevivalPool
    genesis,            \* CreditConservation.genesis_amount
    tracked,            \* a TrackedCredits value
    decomposer,         \* Decomposer.states: NodeId -> DecompositionState
    advances,           \* history: per node, the advance calls that returned true on
                        \* its current DecompositionState
    context,            \* a DecompositionContext: what its methods answer
    events,             \* the Vec<RevivalEvent> decompose_failed_node returned last
    context_calls,      \* history: the context methods the last decompose_failed_node
                        \* called, in call order
    metrics,            \* a NodeMetricsProvider: what its methods answer
    plan,               \* the RedistributionPlan plan_redistribution returned last
    elector,            \* NexusElector.metrics: what the NodeMetrics methods answer
    topologies,         \* TopologyManager.topologies of a bridge: NodeId -> NexusRole
    task_op,            \* per task: the bridge operation it runs, or "idle"
    task_pc,            \* per task: its position in the operation
    lock_holders,       \* per RwLock cell of a bridge: the guards alive, [task, mode]
    lock_queue,         \* per RwLock cell: the tasks waiting in read()/write(), in order
    broadcasters,       \* the tasks start_gradient_broadcast spawned, in spawn order
    broadcast_handles,  \* EnrBridge.broadcast_handles: indices into broadcasters
    calls,              \* per task: the bridge call it is in, between two lock acquisitions
    reservation,        \* a CreditReservation
    account,            \* an EntropyAccount, in tenths
    multiplier,         \* what entropy_price_multiplier returned last, in ten-thousandths
    health_checker,     \* HealingManager.health_checker: the HealthStatus it answers
    gate,               \* a SeptalGate owned by the host of the healing manager
    woronin,            \* WoroninManager.active_bodies: NodeId -> blocked_transactions
    last_check,         \* HealingManager.last_check: NodeId -> Timestamp
    gate_events,        \* history: per bridge and peer, the record_failure calls so far
                        \* (k) while no other gate event has touched the peer's gate (clean)
    ret                 \* the value returned by the last operation

vars == <<now, local_balance, pending_transfers, known_balances, septal_gates,
          gradients, topology,
          publish_fn, net, delivered, pool, genesis, tracked, decomposer, advances,
          context, events, context_calls, metrics, plan, elector, topologies,
          task_op, task_pc, lock_holders, lock_queue, broadcasters, broadcast_handles,
          calls, reservation, account, multiplier, health_checker,
          gate, woronin, last_check, gate_events, ret>>

gradientVars == <<gradients, topology>>
decomposerVars == <<decomposer, advances>>
decomposeVars == <<context, events, context_calls>>
planVars == <<metrics, plan>>
lockVars == <<task_op, task_pc, lock_holders, lock_queue>>
broadcastVars == <<broadcasters, broadcast_handles>>
entropyVars == <<account, multiplier>>
typesVars == <<reservation, entropyVars, calls, health_checker>>
restVars == <<genesis, decomposerVars, decomposeVars, planVars, elector, topologies,
              lockVars, broadcastVars, typesVars>>
bridgeVars == <<local_balance, pending_transfers, known_balances, septal_gates,
                gradientVars,
                publish_fn, net, delivered>>
ledgerVars == <<local_balance, pending_transfers, known_balances, net, delivered>>
hostVars == <<gate, woronin, last_check>>
coreVars == <<now, bridgeVars, gate_events, genesis, tracked, hostVars>>
notDecomposer == <<coreVars, pool, decomposeVars, planVars, elector, topologies,
    lockVars, broadcastVars, typesVars>>
notDecompose == <<coreVars, pool, decomposerVars, planVars, elector, topologies,
    lockVars, broadcastVars, typesVars>>
notPlan == <<coreVars, decomposerVars, decomposeVars, elector, topologies,
    lockVars, broadcastVars, typesVars>>
notElector == <<coreVars, pool, decomposerVars, decomposeVars, planVars, topologies,
    lockVars, broadcastVars, typesVars>>
notTopologies == <<coreVars, pool, decomposerVars, decomposeVars, planVars, elector,
    lockVars, broadcastVars, typesVars>>
notLocks == <<coreVars, pool, decomposerVars, decomposeVars, planVars, elector, topologies,
    broadcastVars, typesVars>>
notReservation == <<coreVars, pool, decomposerVars, decomposeVars, planVars, elector,
    topologies, lockVars, broadcastVars, entropyVars, calls, health_checker>>
notEntropy == <<coreVars, pool, decomposerVars, decomposeVars, planVars, elector,
    topologies, lockVars, broadcastVars, reservation, calls, health_checker>>
notCalls == <<genesis, tracked, hostVars, pool, decomposerVars, decomposeVars, planVars,
    elector, topologies, lockVars, broadcastVars, reservation, entropyVars,
    health_checker>>
notBroadcast ==
    <<now, local_balance, pending_transfers, known_balances, septal_gates, gradientVars,
      publish_fn, gate_events, genesis, tracked, hostVars, pool, decomposerVars,
      decomposeVars, planVars, elector, topologies, lockVars, typesVars>>

---------------------------------------------------------------------------
(* Bounds of the model *)

\* Transfer messages the publish primitives accept in one run.
MaxTransfers == 2
\* Clock ticks in a run of the bridge specifications.
MaxTicks == 1
\* Clock ticks in a run of the healing specification.
MaxHealingTicks == 7
\* Clock ticks in a run of a host that only heals, the wait for a due check aside.
MaxReadmissionTicks == 8
\* Repeated deliveries (a bridge handling a message it has handled before) in a run.
MaxRedeliveries == 1
\* Failures recorded on one gate in a run.
MaxFailures == 6
\* Septal messages the publish primitives accept in one run.
MaxSeptalMsgs == 6
MaxBlocked == 2
\* The highest balance a bridge reaches by handling injected Transfer messages.
MaxInboxBalance == 200

\* Events one DecompositionState collects
MaxEvents == 1
\* Reservations held, and items stored, by a failed node; nodes a provider lists
MaxHeld == 2
\* Nodes in a region
MaxRegion == 4
\* Broadcasters a bridge starts, and interval ticks one broadcaster takes
MaxBroadcasters == 2
MaxBroadcastTicks == 2
\* Credits the revival pool holds for redistribution
MaxPoolCredits == 100
\* Clock ticks in the life of a reservation
MaxReservationTicks == 3

\* The bridges of the system, and a peer that runs no bridge here.
Nodes == {"A", "B"}
Peers == Nodes \cup {"C"}
\* The nodes a region may hold
RegionNodes == Peers \cup {"D"}
\* Amounts a caller passes to transfer, and balances set by set_balance.
Amounts == {0, 50, 100}
InitialBalances == {100, 150}
\* The amount of every transfer of the roundtrip specification
RoundtripAmount == 50

---------------------------------------------------------------------------
(* Program constants *)

FAILURE_THRESHOLD == 5
RECOVERY_TIMEOUT_MS == 60000
HEALTH_CHECK_INTERVAL_MS == 10000
\* ENTROPY_TAX_RATE = 0.02, as a percentage
ENTROPY_TAX_PERCENT == 2
\* revival/pool.rs allocation shares, in percent, and eligibility thresholds
\* (uptime and reputation in hundredths)
NETWORK_MAINTENANCE_ALLOCATION == 40
NEW_NODE_SUBSIDY_ALLOCATION == 25
LOW_BALANCE_SUPPORT_ALLOCATION == 20
RESERVE_BUFFER_ALLOCATION == 15
SUBSIDY_THRESHOLD == 100
MIN_NEXUS_UPTIME_FOR_MAINTENANCE == 95
MIN_REPUTATION_FOR_SUPPORT == 50
\* nexus/election.rs: thresholds (uptime and reputation in hundredths,
\* bandwidth in Mbit/s), leaf capacity, and election weights in tenths
\* entropy/calculator.rs and entropy/types.rs: the bound of an entropy component in
\* tenths, the default weights in tenths, the thresholds of the weighted total in
\* hundredths and the largest price multiplier in ten-thousandths
MAX_COMPONENT == 100
NETWORK_WEIGHT == 3
COMPUTE_WEIGHT == 3
STORAGE_WEIGHT == 2
TEMPORAL_WEIGHT == 2
LOW_ENTROPY_THRESHOLD == 200
MED_ENTROPY_THRESHOLD == 500
HIGH_ENTROPY_THRESHOLD == 800
MAX_ENTROPY_MULTIPLIER == 50000
MIN_NEXUS_UPTIME == 95
MIN_NEXUS_BANDWIDTH == 10
MIN_NEXUS_REPUTATION == 70
MIN_LEAVES_PER_NEXUS == 5
MAX_LEAVES_PER_NEXUS == 50
UPTIME_WEIGHT == 3
BANDWIDTH_WEIGHT == 3
REPUTATION_WEIGHT == 2
CONNECTIVITY_WEIGHT == 2
\* normalize_bandwidth's max_expected, in Mbit/s
MAX_EXPECTED_BANDWIDTH == 100
\* EnrBridgeConfig::default().max_message_age, in ms
MAX_MESSAGE_AGE_MS == 60000
\* ISOLATION_THRESHOLD = 0.7, and the default weights 0.4, 0.3, 0.3
ISOLATION_THRESHOLD_HUNDREDTHS == 70
TIMEOUT_WEIGHT_TENTHS == 4
CREDIT_DEFAULT_WEIGHT_TENTHS == 3
REPUTATION_WEIGHT_TENTHS == 3

\* The clock advances in steps of the shortest timer period.
TickMs == HEALTH_CHECK_INTERVAL_MS

---------------------------------------------------------------------------
(* Option<T> as a set with at most one element; HashMap<K, V> as a function *)

None == {}
Some(x) == {x}

EmptyMap == << >>
Insert(m, k, v) == [x \in (DOMAIN m) \cup {k} |-> IF x = k THEN v ELSE m[x]]
remove_every_entry(m, k) == EmptyMap
Remove(m, k) == [x \in (DOMAIN m) \ {k} |-> m[x]]

RECURSIVE SumOver(_, _)
SumOver(f, S) ==
    IF S = {} THEN 0
    ELSE LET x == CHOOSE y \in S : TRUE IN f[x] + SumOver(f, S \ {x})

---------------------------------------------------------------------------
(* core/types.rs: Credits *)

saturating_sub(a, b) == IF a >= b THEN a - b ELSE 0

credits_add_nothing(a, b) == a
\* impl Add for Credits; every sum of the model stays far below 2^64
credits_add(a, b) == a + b

is_zero(a) == a = 0

(* core/state.rs: CreditState, TrackedCredits *)

CreditStates == {"Active", "Reserved", "Consumed", "Released", "InRevival"}

\* CreditState::can_transition_to
can_transition_to_or_back(s, next) ==
    <<s, next>> \in {<<"Active", "Reserved">>, <<"Reserved", "Consumed">>,
                     <<"Reserved", "Released">>, <<"Released", "Active">>,
                     <<"Consumed", "InRevival">>, <<"InRevival", "Active">>,
                     <<"Reserved", "Active">>}
can_transition_to(s, next) ==
    <<s, next>> \in {<<"Active", "Reserved">>, <<"Reserved", "Consumed">>,
                     <<"Reserved", "Released">>, <<"Released", "Active">>,
                     <<"Consumed", "InRevival">>, <<"InRevival", "Active">>}

\* CreditState::transition: Ok(next) or Err(InvalidTransition {from, to})
CreditStateTransition(s, next) ==
    IF can_transition_to(s, next)
    THEN [ok |-> TRUE, state |-> next]
    ELSE [ok |-> FALSE, state |-> s]

\* TrackedCredits::transition: the state is assigned only when the transition is Ok
TrackedAfter(t, next) ==
    [t EXCEPT !.state = CreditStateTransition(t.state, next).state]

(* revival/pool.rs *)

\* floor(amount as f64 * 0.02): exact for the amounts of the model
calculate_entropy_tax(amount) == (amount * ENTROPY_TAX_PERCENT) \div 100

NewPool == [recycled_credits |-> 0, entropy_tax_collected |-> 0,
            maintenance_fund |-> 0, reserve_buffer |-> 0]

available_for_redistribution(p) ==
    credits_add(p.recycled_credits, p.entropy_tax_collected)

\* RedistributionPlan::default
DefaultPlan ==
    [maintenance_recipients |-> << >>, subsidy_recipients |-> << >>,
     support_recipients |-> << >>, reserve_addition |-> 0]

RECURSIVE SumAmounts(_)
SumAmounts(recipients) ==
    IF recipients = << >> THEN 0
    ELSE Head(recipients)[2] + SumAmounts(Tail(recipients))

total_distributed(pl) ==
    SumAmounts(pl.maintenance_recipients) + SumAmounts(pl.subsidy_recipients)
        + SumAmounts(pl.support_recipients) + pl.reserve_addition

\* (total_available as f64 * allocation) as u64, for the amounts SpecPlan reaches,
\* where it equals budget_f64
budget(total_available, percent) == (total_available * percent) \div 100

\* the budget of a category divided among its recipients, 0 when there is none
per_node(category_budget, count) ==
    IF count /= 0 THEN category_budget \div count ELSE 0

(* u64 and f64 arithmetic on binary numerals, least significant bit first *)

RECURSIVE Bits(_)
Bits(n) == IF n = 0 THEN << >> ELSE <<n % 2>> \o Bits(n \div 2)

RECURSIVE Value(_)
Value(b) == IF b = << >> THEN 0 ELSE b[1] + 2 * Value(Tail(b))

BitAt(b, i) == IF i \in 1..Len(b) THEN b[i] ELSE 0

RECURSIVE Trim(_)
Trim(b) ==
    IF b = << >> \/ b[Len(b)] = 1 THEN b ELSE Trim(SubSeq(b, 1, Len(b) - 1))

ShiftLeft(a, s) == IF a = << >> THEN << >> ELSE [i \in 1..s |-> 0] \o a
ShiftRight(a, s) == IF s >= Len(a) THEN << >> ELSE SubSeq(a, s + 1, Len(a))

\* Numerals are added, multiplied and divided by their digits of 13 bits
Radix == 2^13

Digit(a, j) == Value([t \in 1..13 |-> BitAt(a, 13 * (j - 1) + t)])
Digits(a) == [j \in 1..((Len(a) + 12) \div 13) |-> Digit(a, j)]
FromDigits(d) ==
    Trim([i \in 1..(13 * Len(d)) |-> (d[(i - 1) \div 13 + 1] \div 2^((i - 1) % 13)) % 2])

\* The digits of the number whose columns sum to cols, carries propagated
RECURSIVE Carry(_, _, _)
Carry(cols, i, c) ==
    LET t == c + (IF i <= Len(cols) THEN cols[i] ELSE 0)
    IN IF i > Len(cols) /\ c = 0 THEN << >>
       ELSE <<t % Radix>> \o Carry(cols, i + 1, t \div Radix)

\* a + b, for sums below 2^64
u64_add(a, b) ==
    LET n == IF Len(a) > Len(b) THEN Len(Digits(a)) ELSE Len(Digits(b))
    IN FromDigits(Carry([j \in 1..n |-> Digit(a, j) + Digit(b, j)], 1, 0))

\* The sum of the products x[i] * y[k + 1 - i], i from 1 to n
RECURSIVE Column(_, _, _, _)
Column(x, y, k, n) ==
    IF n = 0 THEN 0
    ELSE Column(x, y, k, n - 1)
         + (IF k + 1 - n \in 1..Len(y) THEN x[n] * y[k + 1 - n] ELSE 0)

u64_mul(a, b) ==
    LET x == Digits(a)
        y == Digits(b)
    IN IF a = << >> \/ b = << >> THEN << >>
       ELSE FromDigits(Carry([k \in 1..(Len(x) + Len(y) - 1) |-> Column(x, y, k, Len(x))],
                             1, 0))

\* The quotient of the digits i..1 of d by n, after a remainder of rem
RECURSIVE QuotientFrom(_, _, _, _)
QuotientFrom(d, n, i, rem) ==
    IF i = 0 THEN << >>
    ELSE QuotientFrom(d, n, i - 1, (Radix * rem + d[i]) % n)
         \o <<(Radix * rem + d[i]) \div n>>

RECURSIVE RemainderFrom(_, _, _, _)
RemainderFrom(d, n, i, rem) ==
    IF i = 0 THEN rem ELSE RemainderFrom(d, n, i - 1, (Radix * rem + d[i]) % n)

\* a / n and a % n, for a small n
u64_div(a, n) == FromDigits(QuotientFrom(Digits(a), n, Len(Digits(a)), 0))
u64_rem(a, n) == RemainderFrom(Digits(a), n, Len(Digits(a)), 0)

u64_le(a, b) ==
    LET n == IF Len(a) > Len(b) THEN Len(a) ELSE Len(b)
        differ == {i \in 1..n : BitAt(a, i) /= BitAt(b, i)}
    IN differ = {} \/ BitAt(b, CHOOSE i \in differ : \A j \in differ : j <= i) = 1

\* The f64 nearest to the integer a, ties to even: 53 significant bits and an
\* exponent, of value mantissa * 2^exponent
f64_round(a) ==
    LET s == Len(a) - 53
        q == ShiftRight(a, s)
        up == a[s] = 1 /\ (q[1] = 1 \/ \E i \in 1..(s - 1) : a[i] = 1)
    IN IF s <= 0 THEN [mantissa |-> a, exponent |-> 0]
       ELSE [mantissa |-> IF up THEN u64_add(q, <<1>>) ELSE q, exponent |-> s]

\* total as f64
to_f64(a) == f64_round(a)

\* The f64 a literal of percent hundredths denotes: the nearest to percent / 100
f64_literal(percent) ==
    LET k == CHOOSE j \in 0..7 : /\ percent * 2^j >= 100
                                 /\ \A h \in 0..(j - 1) : percent * 2^h < 100
        scaled == ShiftLeft(Bits(percent), 52 + k)
        q == u64_div(scaled, 100)
        r == u64_rem(scaled, 100)
        up == 2 * r > 100 \/ (2 * r = 100 /\ q[1] = 1)
    IN [mantissa |-> IF up THEN u64_add(q, <<1>>) ELSE q, exponent |-> -(52 + k)]

\* x * y in f64: the exact product, rounded
f64_mul(x, y) ==
    LET p == f64_round(u64_mul(x.mantissa, y.mantissa))
    IN [mantissa |-> p.mantissa, exponent |-> p.exponent + x.exponent + y.exponent]

\* x as u64, for 0 <= x < 2^64: the fraction dropped
to_u64(x) ==
    IF x.exponent >= 0 THEN ShiftLeft(x.mantissa, x.exponent)
    ELSE ShiftRight(x.mantissa, -x.exponent)

\* (total_available as f64 * allocation) as u64, on numerals
budget_f64(total_available, percent) ==
    to_u64(f64_mul(to_f64(total_available), f64_literal(percent)))

per_node_u64(category_budget, count) ==
    IF count /= 0 THEN u64_div(category_budget, count) ELSE << >>

Recipients(nodes, amount) == [i \in 1..Len(nodes) |-> <<nodes[i], amount>>]

\* A provider that knows no node
NoMetrics ==
    [get_all_nodes |-> << >>, get_nexus_nodes |-> << >>, get_new_nodes |-> << >>,
     get_uptime |-> << >>, get_reputation |-> << >>, get_balance |-> << >>,
     is_healthy |-> << >>]

\* plan_redistribution; uptime and reputation in hundredths
PlanOf(p, m) ==
    LET total_available == available_for_redistribution(p)
        HighUptime(n) == m.get_uptime[n] >= MIN_NEXUS_UPTIME_FOR_MAINTENANCE
        Healthy(n) == m.is_healthy[n]
        Struggling(n) == /\ m.get_balance[n] < SUBSIDY_THRESHOLD
                         /\ m.get_reputation[n] >= MIN_REPUTATION_FOR_SUPPORT
        nexus_nodes == SelectSeq(m.get_nexus_nodes, HighUptime)
        new_nodes == SelectSeq(m.get_new_nodes, Healthy)
        struggling_nodes == SelectSeq(m.get_all_nodes, Struggling)
    IN IF total_available = 0
       THEN DefaultPlan
       ELSE [maintenance_recipients |->
                Recipients(nexus_nodes,
                           per_node(budget(total_available, NETWORK_MAINTENANCE_ALLOCATION),
                                    Len(nexus_nodes))),
             subsidy_recipients |->
                Recipients(new_nodes,
                           per_node(budget(total_available, NEW_NODE_SUBSIDY_ALLOCATION),
                                    Len(new_nodes))),
             support_recipients |->
                Recipients(struggling_nodes,
                           per_node(budget(total_available, LOW_BALANCE_SUPPORT_ALLOCATION),
                                    Len(struggling_nodes))),
             reserve_addition |-> budget(total_available, RESERVE_BUFFER_ALLOCATION)]

\* available_for_redistribution, total_distributed and plan_redistribution over
\* the whole range of u64: the amounts are numerals
available_u64(p) == u64_add(p.recycled_credits, p.entropy_tax_collected)

RECURSIVE SumAmountsU64(_)
SumAmountsU64(recipients) ==
    IF recipients = << >> THEN << >>
    ELSE u64_add(Head(recipients)[2], SumAmountsU64(Tail(recipients)))

total_distributed_u64(pl) ==
    u64_add(u64_add(u64_add(SumAmountsU64(pl.maintenance_recipients),
                            SumAmountsU64(pl.subsidy_recipients)),
                    SumAmountsU64(pl.support_recipients)),
            pl.reserve_addition)

DefaultPlanU64 ==
    [maintenance_recipients |-> << >>, subsidy_recipients |-> << >>,
     support_recipients |-> << >>, reserve_addition |-> << >>]

PlanOfU64(p, m) ==
    LET total_available == available_u64(p)
        HighUptime(n) == m.get_uptime[n] >= MIN_NEXUS_UPTIME_FOR_MAINTENANCE
        Healthy(n) == m.is_healthy[n]
        Struggling(n) == /\ m.get_balance[n] < SUBSIDY_THRESHOLD
                         /\ m.get_reputation[n] >= MIN_REPUTATION_FOR_SUPPORT
        nexus_nodes == SelectSeq(m.get_nexus_nodes, HighUptime)
        new_nodes == SelectSeq(m.get_new_nodes, Healthy)
        struggling_nodes == SelectSeq(m.get_all_nodes, Struggling)
    IN IF total_available = << >>
       THEN DefaultPlanU64
       ELSE [maintenance_recipients |->
                Recipients(nexus_nodes,
                           per_node_u64(budget_f64(total_available,
                                                   NETWORK_MAINTENANCE_ALLOCATION),
                                        Len(nexus_nodes))),
             subsidy_recipients |->
                Recipients(new_nodes,
                           per_node_u64(budget_f64(total_available,
                                                   NEW_NODE_SUBSIDY_ALLOCATION),
                                        Len(new_nodes))),
             support_recipients |->
                Recipients(struggling_nodes,
                           per_node_u64(budget_f64(total_available,
                                                   LOW_BALANCE_SUPPORT_ALLOCATION),
                                        Len(struggling_nodes))),
             reserve_addition |-> budget_f64(total_available, RESERVE_BUFFER_ALLOCATION)]

---------------------------------------------------------------------------
(* bridge/messages.rs *)

\* TransferId::from_transfer: bytes 0..8 hash (from, to, amount, nonce), bytes
\* 8..16 are the nonce; the hash is taken to be injective on the model's inputs.
from_transfer(from, to, amount, nonce) ==
    [from |-> from, to |-> to, amount |-> amount, nonce |-> nonce]

NoId == << >>

\* CreditTransfer; timestamp, memo and signature are read by no handler.
CreditTransfer(id, from, to, amount, nonce) ==
    [kind |-> "Transfer", id |-> id, from |-> from, to |-> to,
     amount |-> amount, nonce |-> nonce]

\* TransferConfirmation
TransferConfirmation(id, confirmer) ==
    [kind |-> "Confirmation", id |-> id, from |-> confirmer, to |-> confirmer,
     amount |-> 0, nonce |-> 0]

\* FailureReport (from: reporter, to: failed_node)
FailureReport(reporter, failed_node) ==
    [kind |-> "FailureReport", id |-> NoId, from |-> reporter, to |-> failed_node,
     amount |-> 0, nonce |-> 0]

\* HealingResponse (from: responder)
HealingResponse(responder) ==
    [kind |-> "HealingResponse", id |-> NoId, from |-> responder, to |-> responder,
     amount |-> 0, nonce |-> 0]

---------------------------------------------------------------------------
(* septal/gate.rs: SeptalGate *)

NewGate == [state |-> "Open", failure_count |-> 0,
            last_failure |-> None, isolation_start |-> None]

is_closed(g) == g.state = "Closed"
is_half_open(g) == g.state = "HalfOpen"

\* SeptalGate::record_failure
gate_record_failure(g) ==
    [g EXCEPT !.failure_count = @ + 1, !.last_failure = Some(now)]

\* SeptalGate::record_success, were the count kept
record_success_keeping_count(g) == g

\* SeptalGate::record_success
record_success(g) == [g EXCEPT !.failure_count = 0]

\* SeptalGate::should_trip
should_trip_never(g) == FALSE
should_trip(g) == g.failure_count >= FAILURE_THRESHOLD

\* SeptalGate::trip, were isolation_start left as it is
trip_without_stamp(g) == [g EXCEPT !.state = "Closed"]

\* SeptalGate::trip
trip(g) == [g EXCEPT !.state = "Closed", !.isolation_start = Some(now)]

\* SeptalGate::attempt_half_open: whether it returns true, and the gate after it
half_open_due_at_once(g) == g.state = "Closed"
half_open_due(g) ==
    /\ g.state = "Closed"
    /\ \E start \in g.isolation_start : now >= start + RECOVERY_TIMEOUT_MS
attempt_half_open(g) ==
    IF half_open_due(g) THEN [g EXCEPT !.state = "HalfOpen"] ELSE g

\* SeptalGate::recover
recover_keeping_failures(g) == [g EXCEPT !.state = "Open", !.isolation_start = None]
recover(g) ==
    [g EXCEPT !.state = "Open", !.failure_count = 0, !.isolation_start = None]

\* SeptalGate::fail_recovery
fail_recovery(g) ==
    [g EXCEPT !.state = "Closed", !.isolation_start = Some(now)]

\* HealthStatus, its scores in tenths; the checker's answers the model draws
HealthStatuses ==
    [is_healthy : BOOLEAN, timeout_score : {0, 10}, credit_score : {0, 10},
     reputation_score : {0, 10}]

\* HealthStatus::weighted_score under SeptalGateConfig::default(), in hundredths
weighted_score(h) ==
    h.timeout_score * TIMEOUT_WEIGHT_TENTHS
      + h.credit_score * CREDIT_DEFAULT_WEIGHT_TENTHS
      + h.reputation_score * REPUTATION_WEIGHT_TENTHS

\* HealthStatus::should_isolate
should_isolate(h) == weighted_score(h) >= ISOLATION_THRESHOLD_HUNDREDTHS

\* transition_gate: the gate after the call
GateAfterTransition(g, h) ==
    CASE g.state = "Open" ->
            IF should_isolate(h)
            THEN LET g1 == gate_record_failure(g)
                 IN IF should_trip(g1) THEN trip(g1) ELSE g1
            ELSE record_success(g)
      [] g.state = "Closed" -> attempt_half_open(g)
      [] OTHER -> IF h.is_healthy THEN recover(g) ELSE fail_recovery(g)

---------------------------------------------------------------------------
(* bridge/mod.rs: EnrBridge *)

Ret(op, result, id) == [op |-> op, result |-> result, id |-> id]

\* EnrBridge::is_isolated
is_isolated(n, peer) ==
    peer \in DOMAIN septal_gates[n] /\ is_closed(septal_gates[n][peer])

\* EnrBridge::publish: what the call returns
publish(n) ==
    CASE publish_fn[n] = "none" -> "NotConnected"
      [] publish_fn[n] = "err" -> "Network"
      [] OTHER -> "Ok"

\* The effect of a publish call on the network: the message is handed to the
\* gossip layer only when a publisher is connected and accepts it.
Published(n, msg) ==
    net' = IF publish(n) = "Ok" THEN Append(net, msg) ELSE net

\* The delivery counts d, with a zero count for every message added to the network.
Extend(d) ==
    [j \in 1..Len(net') |-> IF j <= Len(d) THEN d[j] ELSE [m \in Nodes |-> 0]]

TransfersPublished == Cardinality({i \in 1..Len(net) : net[i].kind = "Transfer"})

\* The validation at the head of EnrBridge::transfer
ValidateTransferNoBalanceCheck(n, to, amount) ==
    IF is_zero(amount) THEN "ZeroAmount"
    ELSE IF to = n THEN "SelfTransfer"
    ELSE "Ok"
ValidateTransfer(n, to, amount) ==
    IF is_zero(amount) THEN "ZeroAmount"
    ELSE IF to = n THEN "SelfTransfer"
    ELSE IF local_balance[n] < amount THEN "InsufficientBalance"
    ELSE "Ok"

\* EnrBridge::transfer
transfer(n, to, amount) ==
    /\ TransfersPublished < MaxTransfers
    /\ UNCHANGED <<now, known_balances, septal_gates, gate_events, publish_fn, pool,
                   restVars, tracked, hostVars,
                   gradientVars>>
    /\ IF ValidateTransfer(n, to, amount) # "Ok"
       THEN /\ ret' = Ret("transfer", ValidateTransfer(n, to, amount), NoId)
            /\ UNCHANGED <<local_balance, pending_transfers, net, delivered>>
       ELSE LET nonce == now
                id == from_transfer(n, to, amount, nonce)
                t == CreditTransfer(id, n, to, amount, nonce)
            IN /\ local_balance' =
                     [local_balance EXCEPT ![n] = saturating_sub(@, amount)]
               /\ pending_transfers' =
                     [pending_transfers EXCEPT ![n] = Insert(@, id, t)]
               /\ Published(n, t)
               /\ delivered' = Extend(delivered)
               /\ ret' = IF publish(n) = "Ok"
                         THEN Ret("transfer", "Ok", id)
                         ELSE Ret("transfer", "Cancelled", NoId)

\* The known_balances update of the Transfer handler
KnownAfterTransfer(kb, t) ==
    LET deducted == IF t.from \in DOMAIN kb
                    THEN [kb EXCEPT ![t.from] = saturating_sub(@, t.amount)]
                    ELSE kb
        entry == IF t.to \in DOMAIN deducted THEN deducted[t.to] ELSE 0
    IN Insert(deducted, t.to, credits_add(entry, t.amount))

\* EnrBridge::handle_credit_message, CreditMessage::Transfer
HandleTransfer(n, t) ==
    /\ IF t.to = n
       THEN /\ local_balance' =
                  [local_balance EXCEPT ![n] = credits_add(@, t.amount)]
            /\ Published(n, TransferConfirmation(t.id, n))
       ELSE UNCHANGED <<local_balance, net>>
    /\ known_balances' =
          [known_balances EXCEPT ![n] = KnownAfterTransfer(@, t)]
    /\ UNCHANGED pending_transfers
    /\ ret' = Ret("handle_transfer", "Ok", t.id)

\* A Confirmation handler that leaves the pending transfers alone
HandleConfirmationIgnored(n, c) ==
    /\ UNCHANGED <<pending_transfers, local_balance, known_balances, net>>
    /\ ret' = Ret("handle_confirmation", "Ok", c.id)

\* EnrBridge::handle_credit_message, CreditMessage::Confirmation
HandleConfirmation(n, c) ==
    /\ pending_transfers' = [pending_transfers EXCEPT ![n] = Remove(@, c.id)]
    /\ UNCHANGED <<local_balance, known_balances, net>>
    /\ ret' = Ret("handle_confirmation", "Ok", c.id)

\* The delivery count of message i after bridge n handled it.
CountDelivery(n, i) ==
    delivered' = Extend([delivered EXCEPT ![i][n] = @ + 1])

\* The handle_message calls so far on a message the bridge had handled before
RECURSIVE RedeliveriesFrom(_)
RedeliveriesFrom(i) ==
    IF i > Len(delivered) THEN 0
    ELSE SumOver([n \in Nodes |-> IF delivered[i][n] > 1 THEN delivered[i][n] - 1 ELSE 0],
                 Nodes)
           + RedeliveriesFrom(i + 1)

\* EnrBridge::handle_message on the i-th published message, a credit message;
\* the gossip layer repeats at most `redeliveries` deliveries in a run.
Deliver(n, i, redeliveries) ==
    /\ i \in 1..Len(net)
    /\ delivered[i][n] = 0 \/ RedeliveriesFrom(1) < redeliveries
    /\ IF net[i].kind = "Transfer"
       THEN HandleTransfer(n, net[i])
       ELSE HandleConfirmation(n, net[i])
    /\ CountDelivery(n, i)
    /\ UNCHANGED <<now, septal_gates, gate_events, publish_fn, pool, restVars, tracked,
                   hostVars,
                   gradientVars>>

SeptalPublished ==
    Cardinality({i \in 1..Len(net) : net[i].kind \in {"FailureReport", "HealingResponse"}})

\* The history of a peer's gate once an event other than record_failure touched it
OtherGateEvent == [k |-> 0, clean |-> FALSE]

\* The gate a bridge holds for a peer, as entry().or_insert_with(SeptalGate::new) sees it
GateOrNew(n, peer) ==
    IF peer \in DOMAIN septal_gates[n] THEN septal_gates[n][peer] ELSE NewGate

\* record_failure followed by the trip check, as the bridge runs them on a gate
FailAndTrip(g) ==
    LET g1 == gate_record_failure(g)
    IN IF should_trip(g1) THEN trip(g1) ELSE g1

\* EnrBridge::record_failure
record_failure(n, node_id) ==
    /\ GateOrNew(n, node_id).failure_count < MaxFailures
    /\ SeptalPublished < MaxSeptalMsgs
    /\ septal_gates' =
          [septal_gates EXCEPT ![n] = Insert(@, node_id, FailAndTrip(GateOrNew(n, node_id)))]
    /\ Published(n, FailureReport(n, node_id))
    /\ delivered' = Extend(delivered)
    /\ ret' = Ret("record_failure", "Ok", NoId)
    /\ gate_events' = [gate_events EXCEPT ![n][node_id] =
                          IF @.clean THEN [@ EXCEPT !.k = @ + 1] ELSE @]
    /\ UNCHANGED <<now, local_balance, pending_transfers, known_balances, publish_fn,
                   pool, restVars, tracked, hostVars,
                   gradientVars>>

\* EnrBridge::handle_septal_message, SeptalMessage::FailureReport
HandleFailureReport(n, failed_node) ==
    /\ GateOrNew(n, failed_node).failure_count < MaxFailures
    /\ septal_gates' =
          [septal_gates EXCEPT ![n] = Insert(@, failed_node, FailAndTrip(GateOrNew(n, failed_node)))]
    /\ ret' = Ret("handle_failure_report", "Ok", NoId)
    /\ gate_events' = [gate_events EXCEPT ![n][failed_node] = OtherGateEvent]
    /\ UNCHANGED <<now, ledgerVars, publish_fn, pool, restVars, tracked, hostVars,
                   gradientVars>>

\* EnrBridge::handle_septal_message, SeptalMessage::Isolation
HandleIsolation(n, isolated_node) ==
    /\ septal_gates' =
          [septal_gates EXCEPT ![n] = Insert(@, isolated_node, trip(GateOrNew(n, isolated_node)))]
    /\ ret' = Ret("handle_isolation", "Ok", NoId)
    /\ gate_events' = [gate_events EXCEPT ![n][isolated_node] = OtherGateEvent]
    /\ UNCHANGED <<now, ledgerVars, publish_fn, pool, restVars, tracked, hostVars,
                   gradientVars>>

\* EnrBridge::handle_septal_message, SeptalMessage::HealingProbe
HandleHealingProbe(n, target) ==
    /\ SeptalPublished < MaxSeptalMsgs
    /\ IF target = n
       THEN Published(n, HealingResponse(n))
       ELSE UNCHANGED net
    /\ delivered' = Extend(delivered)
    /\ ret' = Ret("handle_healing_probe", "Ok", NoId)
    /\ UNCHANGED <<now, local_balance, pending_transfers, known_balances, septal_gates,
                   gate_events, publish_fn, pool, restVars, tracked, hostVars,
                   gradientVars>>

\* EnrBridge::handle_septal_message, SeptalMessage::HealingResponse
HandleHealingResponse(n, responder) ==
    /\ septal_gates' =
          IF responder \in DOMAIN septal_gates[n]
          THEN LET g1 == record_success(septal_gates[n][responder])
               IN [septal_gates EXCEPT ![n][responder] =
                      IF is_half_open(g1) THEN recover(g1) ELSE g1]
          ELSE septal_gates
    /\ ret' = Ret("handle_healing_response", "Ok", NoId)
    /\ gate_events' = [gate_events EXCEPT ![n][responder] = OtherGateEvent]
    /\ UNCHANGED <<now, ledgerVars, publish_fn, pool, restVars, tracked, hostVars,
                   gradientVars>>

\* EnrBridge::handle_septal_message, SeptalMessage::Recovery
HandleRecovery(n, recovered_node) ==
    /\ septal_gates' =
          IF recovered_node \in DOMAIN septal_gates[n]
          THEN [septal_gates EXCEPT ![n][recovered_node] = recover(@)]
          ELSE septal_gates
    /\ ret' = Ret("handle_recovery", "Ok", NoId)
    /\ gate_events' = [gate_events EXCEPT ![n][recovered_node] = OtherGateEvent]
    /\ UNCHANGED <<now, ledgerVars, publish_fn, pool, restVars, tracked, hostVars,
                   gradientVars>>

(* bridge/mod.rs: handle_message on messages arriving from the network, each
   carrying the timestamp its sender gave it *)

\* ResourceGradient / GradientPayload, two of the six f64 fields
DefaultGradient == [cpu_available |-> 0, credit_balance |-> 0]
GradientPayloads == {DefaultGradient, [cpu_available |-> 1, credit_balance |-> 500]}

\* GradientPayload::to_resource_gradient: a field-by-field copy
to_resource_gradient_default(p) == DefaultGradient
to_resource_gradient(p) ==
    [cpu_available |-> p.cpu_available, credit_balance |-> p.credit_balance]

\* GradientMessage
GradientMessage(node_id, gradient, timestamp) ==
    [kind |-> "Gradient", node_id |-> node_id, gradient |-> gradient,
     timestamp |-> timestamp]

\* CreditStateSync
CreditStateSync(node_id, balance, version, timestamp) ==
    [kind |-> "StateSync", node_id |-> node_id, balance |-> balance,
     version |-> version, timestamp |-> timestamp]

\* CreditTransfer as its sender built it at `timestamp`
StampedTransfer(from, to, amount, timestamp) ==
    [kind |-> "Transfer", id |-> from_transfer(from, to, amount, timestamp),
     from |-> from, to |-> to, amount |-> amount, nonce |-> timestamp,
     timestamp |-> timestamp]

\* FailureReport as its reporter built it at `timestamp`
StampedFailureReport(reporter, failed_node, timestamp) ==
    [kind |-> "FailureReport", from |-> reporter, to |-> failed_node,
     timestamp |-> timestamp]

\* The age test of handle_message
message_expired_at_limit(msg) == saturating_sub(now, msg.timestamp) >= MAX_MESSAGE_AGE_MS
message_expired(msg) == saturating_sub(now, msg.timestamp) > MAX_MESSAGE_AGE_MS

\* TopologyManager::update_gradient: only a node that has a topology is updated
update_gradient(topo, node, g) ==
    IF node \in DOMAIN topo THEN [topo EXCEPT ![node] = g] ELSE topo

\* EnrBridge::handle_gradient_message
HandleGradient(n, msg) ==
    IF is_isolated(n, msg.node_id)
    THEN UNCHANGED gradientVars
    ELSE /\ gradients' = [gradients EXCEPT ![n] =
                             Insert(@, msg.node_id, to_resource_gradient(msg.gradient))]
         /\ topology' = [topology EXCEPT ![n] =
                            update_gradient(@, msg.node_id,
                                            to_resource_gradient(msg.gradient))]

\* EnrBridge::handle_message, EnrMessage::Gradient
handle_message_gradient(n, msg) ==
    /\ IF message_expired(msg)
       THEN /\ ret' = Ret("handle_message", "MessageExpired", msg)
            /\ UNCHANGED gradientVars
       ELSE /\ HandleGradient(n, msg)
            /\ ret' = Ret("handle_message", "Ok", msg)
    /\ UNCHANGED <<now, ledgerVars, septal_gates, gate_events, publish_fn, pool, restVars,
                   tracked, hostVars>>

\* EnrBridge::handle_credit_message, CreditMessage::StateSync
HandleStateSync(n, sync) ==
    /\ known_balances' =
          [known_balances EXCEPT ![n] = Insert(@, sync.node_id, sync.balance)]
    /\ UNCHANGED <<local_balance, pending_transfers, net>>
    /\ ret' = Ret("handle_state_sync", "Ok", sync)

\* EnrBridge::handle_message, EnrMessage::Credit: no age test
handle_message_credit(n, msg) ==
    /\ IF msg.kind = "Transfer"
       THEN /\ local_balance[n] + msg.amount <= MaxInboxBalance
            /\ HandleTransfer(n, msg)
       ELSE HandleStateSync(n, msg)
    /\ delivered' = Extend(delivered)
    /\ UNCHANGED <<now, septal_gates, gate_events, publish_fn, pool, restVars, tracked,
                   hostVars, gradientVars>>

\* EnrBridge::handle_message, EnrMessage::Septal(FailureReport): no age test
handle_message_septal(n, msg) ==
    HandleFailureReport(n, msg.to)

\* The variables no TrackedCredits operation touches
notTracked == <<now, bridgeVars, gate_events, pool, restVars, hostVars>>

\* What a TrackedCredits operation returns for the transition from state s to next
TransitionRet(op, s, next) ==
    IF CreditStateTransition(s, next).ok
    THEN Ret(op, "Ok", NoId)
    ELSE Ret(op, "InvalidTransition", <<s, next>>)

\* TrackedCredits::new
tracked_new(amount) ==
    /\ tracked' = [amount |-> amount, state |-> "Active"]
    /\ ret' = Ret("tracked_new", "Ok", NoId)
    /\ UNCHANGED notTracked

\* TrackedCredits::transition
tracked_transition(next) ==
    /\ tracked' = TrackedAfter(tracked, next)
    /\ ret' = TransitionRet("transition", tracked.state, next)
    /\ UNCHANGED notTracked

\* TrackedCredits::reserve
tracked_reserve ==
    /\ tracked' = TrackedAfter(tracked, "Reserved")
    /\ ret' = TransitionRet("reserve", tracked.state, "Reserved")
    /\ UNCHANGED notTracked

\* TrackedCredits::consume
tracked_consume ==
    /\ tracked' = TrackedAfter(tracked, "Consumed")
    /\ ret' = TransitionRet("consume", tracked.state, "Consumed")
    /\ UNCHANGED notTracked

\* TrackedCredits::release: transition(Released)?, then transition(Active)
tracked_release ==
    /\ IF CreditStateTransition(tracked.state, "Released").ok
       THEN /\ tracked' = TrackedAfter(TrackedAfter(tracked, "Released"), "Active")
            /\ ret' = TransitionRet("release", "Released", "Active")
       ELSE /\ tracked' = TrackedAfter(tracked, "Released")
            /\ ret' = TransitionRet("release", tracked.state, "Released")
    /\ UNCHANGED notTracked

(* septal/gate.rs transition_gate, septal/healing.rs, septal/woronin.rs: the gate a
   host keeps for one node and drives through transition_gate and the HealingManager *)

GateNode == "C"

\* The variables the host's gate operations leave alone
notHost == <<now, bridgeVars, gate_events, pool, restVars, tracked>>

\* transition_gate: Some(transition) exactly when the state changed
transition_gate(h) ==
    /\ gate' = GateAfterTransition(gate, h)
    /\ ret' = Ret("transition_gate",
                  IF gate'.state # gate.state THEN "Some" ELSE "None",
                  <<gate.state, gate'.state>>)
    /\ UNCHANGED <<notHost, woronin, last_check>>

\* SeptalGate::attempt_half_open called on the host's gate
gate_attempt_half_open ==
    /\ gate' = attempt_half_open(gate)
    /\ ret' = Ret("attempt_half_open", IF half_open_due(gate) THEN "true" ELSE "false", NoId)
    /\ UNCHANGED <<notHost, woronin, last_check>>

\* HealingManager::should_check, were only the first check of a node ever due
should_check_once(node) == node \notin DOMAIN last_check

\* HealingManager::should_check
should_check(node) ==
    \/ node \notin DOMAIN last_check
    \/ /\ node \in DOMAIN last_check
       /\ now >= last_check[node] + HEALTH_CHECK_INTERVAL_MS

\* HealingManager::attempt_recovery, h being the health checker's answer
attempt_recovery(h) ==
    /\ IF ~is_closed(gate) /\ ~is_half_open(gate)
       THEN /\ ret' = Ret("attempt_recovery", "NotNeeded", NoId)
            /\ UNCHANGED <<gate, woronin, last_check>>
       ELSE IF ~should_check(GateNode)
       THEN /\ ret' = Ret("attempt_recovery", "TooSoon", NoId)
            /\ UNCHANGED <<gate, woronin, last_check>>
       ELSE /\ last_check' = Insert(last_check, GateNode, now)
            /\ IF is_closed(gate)
               THEN /\ gate' = attempt_half_open(gate)
                    /\ ret' = Ret("attempt_recovery",
                                  IF half_open_due(gate) THEN "EnteredHalfOpen"
                                                         ELSE "StillClosed", NoId)
                    /\ UNCHANGED woronin
               ELSE IF h.is_healthy /\ ~should_isolate(h)
               THEN /\ gate' = recover(gate)
                    /\ woronin' = Remove(woronin, GateNode)
                    /\ ret' = Ret("attempt_recovery", "Recovered", NoId)
               ELSE /\ gate' = fail_recovery(gate)
                    /\ ret' = Ret("attempt_recovery", "RecoveryFailed", NoId)
                    /\ UNCHANGED woronin
    /\ UNCHANGED notHost

\* WoroninManager::is_isolated
woronin_is_isolated(node) == node \in DOMAIN woronin

\* WoroninManager::should_block
should_block(from, to) == woronin_is_isolated(from) \/ woronin_is_isolated(to)

\* WoroninManager::record_blocked: counts only when the node has an active body
woronin_record_blocked ==
    /\ woronin_is_isolated(GateNode) => woronin[GateNode].blocked < MaxBlocked
    /\ woronin' = IF woronin_is_isolated(GateNode)
                  THEN [woronin EXCEPT ![GateNode].blocked = @ + 1]
                  ELSE woronin
    /\ ret' = Ret("record_blocked", "Ok", NoId)
    /\ UNCHANGED <<notHost, gate, last_check>>

\* WoroninManager::activate: a fresh body replaces whatever was there
woronin_activate ==
    /\ woronin' = Insert(woronin, GateNode, [activated_at |-> now, blocked |-> 0])
    /\ ret' = Ret("activate", "Ok", NoId)
    /\ UNCHANGED <<notHost, gate, last_check>>

\* WoroninManager::deactivate
woronin_deactivate ==
    /\ woronin' = Remove(woronin, GateNode)
    /\ ret' = Ret("deactivate",
                  IF GateNode \in DOMAIN woronin THEN "Some" ELSE "None", NoId)
    /\ UNCHANGED <<notHost, gate, last_check>>

\* Time passes in a run whose clock started at `start`
TickAfter(start, limit) ==
    /\ now < start + limit * TickMs
    /\ now' = now + TickMs
    /\ UNCHANGED <<bridgeVars, gate_events, pool, restVars, tracked, hostVars, ret>>

\* Time passes
Tick(limit) ==
    /\ now < limit * TickMs
    /\ now' = now + TickMs
    /\ UNCHANGED <<bridgeVars, gate_events, pool, restVars, tracked, hostVars, ret>>

---------------------------------------------------------------------------
(* The transfer protocol: connected bridges whose balances were set once,   *)
(* each published message handled at most once by each bridge.              *)

\* A context that knows nothing of the node
NoContext ==
    [confirm_failure |-> FALSE, freeze_node_credits |-> 0,
     get_held_reservations |-> << >>, get_stored_items |-> << >>]

\* No decompose_failed_node has run
NoDecompose ==
    /\ context = NoContext
    /\ events = << >>
    /\ context_calls = << >>

\* No plan_redistribution has run
NoPlan ==
    /\ metrics = NoMetrics
    /\ plan = DefaultPlan

\* The MockMetrics of the election tests with empty maps: every node unknown
NoNodeMetrics ==
    [n \in RegionNodes |-> [uptime |-> 0, bandwidth |-> 0, reputation |-> 0,
                            connection_count |-> 0]]

\* A reservation of nothing, never created
NoReservation ==
    [id |-> 0, account |-> "A", amount |-> 0, created_at |-> 0, ttl |-> 0, consumed |-> FALSE]

\* EntropyAccount::zero
zero == [network |-> 0, compute |-> 0, storage |-> 0, temporal |-> 0]

\* The MockHealthChecker { healthy: true } of the healing tests
HealthyChecker ==
    [is_healthy |-> TRUE, timeout_score |-> 0, credit_score |-> 0, reputation_score |-> 0]

\* A task that is in no call
NoCall == [op |-> "idle", stage |-> "idle"]

\* The tasks that may run operations of one bridge at the same time
Tasks == {"t1", "t2"}

\* The RwLock cells of an EnrBridge
Cells == {"topology", "gradients", "local_gradient", "local_balance", "septal_gates",
          "known_balances", "pending_transfers"}

\* Every task idle, every cell unlocked
NoTasks ==
    /\ task_op = [t \in Tasks |-> "idle"]
    /\ task_pc = [t \in Tasks |-> 1]
    /\ lock_holders = [c \in Cells |-> {}]
    /\ lock_queue = [c \in Cells |-> << >>]

\* The parts of the state a specification does not use, except those it names
Idle(used) ==
    /\ "decompose" \in used \/ NoDecompose
    /\ "plan" \in used \/ NoPlan
    /\ "elector" \in used \/ elector = NoNodeMetrics
    /\ "topologies" \in used \/ topologies = EmptyMap
    /\ "locks" \in used \/ NoTasks
    /\ "broadcast" \in used \/ (broadcasters = << >> /\ broadcast_handles = << >>)
    /\ IF "pool" \in used THEN TRUE ELSE pool = NewPool
    /\ IF "reservation" \in used THEN TRUE ELSE reservation = NoReservation
    /\ IF "calls" \in used THEN TRUE ELSE calls = [t \in Tasks |-> NoCall]
    /\ IF "entropy" \in used THEN TRUE ELSE (account = zero /\ multiplier = 0)
    /\ IF "checker" \in used THEN TRUE ELSE health_checker = HealthyChecker

InitBridges ==
    /\ gradients = [n \in Nodes |-> EmptyMap]
    /\ pending_transfers = [n \in Nodes |-> EmptyMap]
    /\ known_balances = [n \in Nodes |-> EmptyMap]
    /\ septal_gates = [n \in Nodes |-> EmptyMap]
    /\ gate_events = [n \in Nodes |-> [p \in Peers |-> [k |-> 0, clean |-> TRUE]]]
    /\ net = << >>
    /\ delivered = << >>
    /\ decomposer = EmptyMap
    /\ advances = [n \in Nodes |-> 0]
    /\ tracked = [amount |-> 0, state |-> "Active"]
    /\ gate = NewGate
    /\ woronin = EmptyMap
    /\ last_check = EmptyMap
    /\ ret = Ret("new", "Ok", NoId)

InitCommon ==
    /\ now = 0
    /\ Idle({})
    /\ topology = [n \in Nodes |-> EmptyMap]
    /\ InitBridges

InitLedger ==
    /\ InitCommon
    /\ local_balance \in [Nodes -> InitialBalances]
    /\ genesis = SumOver(local_balance, Nodes)
    /\ publish_fn = [n \in Nodes |-> "ok"]

NextLedger ==
    \/ \E n \in Nodes, to \in Peers, amount \in Amounts : transfer(n, to, amount)
    \/ \E n \in Nodes, i \in 1..Len(net) : Deliver(n, i, 0)
    \/ Tick(MaxTicks)

SpecLedger == InitLedger /\ [][NextLedger]_vars

(* Transfers of one amount between bridges of equal balances, under a gossip *)
(* layer that hands every published message to every bridge                 *)

InitRoundtrip ==
    /\ InitCommon
    /\ local_balance = [n \in Nodes |-> RoundtripAmount * 2]
    /\ genesis = SumOver(local_balance, Nodes)
    /\ publish_fn = [n \in Nodes |-> "ok"]

NextRoundtrip ==
    \/ \E n \in Nodes, to \in Peers : transfer(n, to, RoundtripAmount)
    \/ \E n \in Nodes, i \in 1..Len(net) : Deliver(n, i, 0)
    \/ Tick(MaxTicks)

SpecRoundtrip == InitRoundtrip /\ [][NextRoundtrip]_vars

SpecRoundtripFair ==
    SpecRoundtrip /\ \A n \in Nodes, i \in 1..(2 * MaxTransfers) : WF_vars(Deliver(n, i, 0))

(* The same transfers by bridges without a publisher, or with one that fails *)

InitUnreliable ==
    /\ InitCommon
    /\ local_balance = [n \in Nodes |-> RoundtripAmount * 2]
    /\ genesis = SumOver(local_balance, Nodes)
    /\ publish_fn \in [Nodes -> {"none", "err", "ok"}]

SpecUnreliable == InitUnreliable /\ [][NextRoundtrip]_vars

(* The credit state machine: one TrackedCredits value and its operations *)

TrackedAmounts == {0, 50, 100}

InitCredit ==
    /\ InitCommon
    /\ local_balance = [n \in Nodes |-> 0]
    /\ genesis = 0
    /\ publish_fn = [n \in Nodes |-> "none"]

NextCredit ==
    \/ \E amount \in TrackedAmounts : tracked_new(amount)
    \/ \E next \in CreditStates : tracked_transition(next)
    \/ tracked_reserve
    \/ tracked_consume
    \/ tracked_release

SpecCredit == InitCredit /\ [][NextCredit]_vars

(* A host driving one gate: health checks, healing attempts and the Woronin body *)

InitHealing ==
    /\ InitCommon
    /\ local_balance = [n \in Nodes |-> 0]
    /\ genesis = 0
    /\ publish_fn = [n \in Nodes |-> "none"]

NextHealing ==
    \/ \E h \in HealthStatuses : transition_gate(h)
    \/ \E h \in HealthStatuses : attempt_recovery(h)
    \/ gate_attempt_half_open
    \/ woronin_activate
    \/ woronin_deactivate
    \/ woronin_record_blocked
    \/ Tick(MaxHealingTicks)

SpecHealing == InitHealing /\ [][NextHealing]_vars

(* A host that isolated one node and now only heals: a Closed gate with its   *)
(* Woronin body, a health checker that answers the same status at every probe, *)
(* attempt_recovery called again and again while time passes.                  *)

\* Time passes; the clock of a run stops at the limit, except that the wait for the
\* next check of a HalfOpen gate always ends
HealingTick(limit) ==
    /\ \/ now < limit * TickMs
       \/ is_half_open(gate) /\ ~should_check(GateNode)
    /\ now' = now + TickMs
    /\ UNCHANGED <<bridgeVars, gate_events, pool, restVars, tracked, hostVars, ret>>

InitReadmission ==
    /\ now = 0
    /\ Idle({"checker"})
    /\ topology = [n \in Nodes |-> EmptyMap]
    /\ InitBridges
    /\ local_balance = [n \in Nodes |-> 0]
    /\ genesis = 0
    /\ publish_fn = [n \in Nodes |-> "none"]
    /\ health_checker \in HealthStatuses

\* The host trips the gate and activates the Woronin body, once, early in the run
Isolate ==
    /\ gate.state = "Open"
    /\ ret.op = "new"
    /\ now <= MaxTicks * TickMs
    /\ gate' = trip(gate)
    /\ woronin' = Insert(woronin, GateNode, [activated_at |-> now, blocked |-> 0])
    /\ ret' = Ret("trip", "Ok", NoId)
    /\ UNCHANGED <<notHost, last_check>>

NextReadmission ==
    \/ Isolate
    \/ attempt_recovery(health_checker)
    \/ HealingTick(MaxReadmissionTicks)

SpecReadmission == InitReadmission /\ [][NextReadmission]_vars

SpecReadmissionFair ==
    /\ SpecReadmission
    /\ WF_vars(attempt_recovery(health_checker))
    /\ WF_vars(HealingTick(MaxReadmissionTicks))

(* The same bridges under a gossip layer that may hand a message to a bridge *)
(* more than once (SpecGossip), and under one that carries isolation and     *)
(* recovery notices about a peer (SpecIsolation).                            *)

\* The bridge whose gates the gate specifications follow, and the peers gated.
GateBridge == "A"
GatePeers == {"B"}

InitGossip ==
    /\ InitCommon
    /\ local_balance = [n \in Nodes |-> IF n = GateBridge THEN 100 ELSE 150]
    /\ genesis = SumOver(local_balance, Nodes)
    /\ publish_fn = [n \in Nodes |-> "ok"]

NextGossip ==
    \/ \E n \in Nodes, to \in Peers, amount \in Amounts : transfer(n, to, amount)
    \/ \E n \in Nodes, i \in 1..Len(net) : Deliver(n, i, MaxRedeliveries)

SpecGossip == InitGossip /\ [][NextGossip]_vars

NextIsolation ==
    \/ \E n \in Nodes, to \in Peers, amount \in Amounts : transfer(n, to, amount)
    \/ \E n \in Nodes, i \in 1..Len(net) : Deliver(n, i, 0)
    \/ \E peer \in GatePeers : HandleIsolation(GateBridge, peer)
    \/ \E peer \in GatePeers : HandleRecovery(GateBridge, peer)

SpecIsolation == InitGossip /\ [][NextIsolation]_vars

(* The septal gates of one bridge: failures recorded by the host and septal  *)
(* messages arriving from the peers, with or without a publisher.            *)

InitGate ==
    /\ InitCommon
    /\ local_balance = [n \in Nodes |-> 0]
    /\ genesis = 0
    /\ publish_fn \in [Nodes -> {"none", "ok"}]
    /\ publish_fn["B"] = "none"

NextGate ==
    \/ \E peer \in GatePeers : record_failure(GateBridge, peer)
    \/ \E peer \in GatePeers : HandleFailureReport(GateBridge, peer)
    \/ \E peer \in GatePeers : HandleIsolation(GateBridge, peer)
    \/ \E target \in {GateBridge} \cup GatePeers : HandleHealingProbe(GateBridge, target)
    \/ \E peer \in GatePeers : HandleHealingResponse(GateBridge, peer)
    \/ \E peer \in GatePeers : HandleRecovery(GateBridge, peer)
    \/ Tick(MaxTicks)

SpecGate == InitGate /\ [][NextGate]_vars

(* One bridge and what the network hands to its handle_message *)

\* The clock at the start of a run, late enough for a message to be older than
\* max_message_age
InboxStart == 100000

\* The timestamps a message arriving now may carry: stale, at the age limit,
\* current, and ahead of the local clock
InputTimestamps ==
    {now - MAX_MESSAGE_AGE_MS - TickMs, now - MAX_MESSAGE_AGE_MS, now, now + TickMs}

GradientInputs ==
    {GradientMessage(p, g, ts) : p \in GatePeers, g \in GradientPayloads,
                                 ts \in InputTimestamps}

CreditInputs ==
    {StampedTransfer(p, GateBridge, 50, ts) :
        p \in GatePeers, ts \in {now - MAX_MESSAGE_AGE_MS - TickMs, now}}
    \cup {CreditStateSync(p, b, v, ts) :
        p \in GatePeers, b \in {50, 100}, v \in {1, 2},
        ts \in {now - MAX_MESSAGE_AGE_MS - TickMs, now}}

SeptalInputs ==
    {StampedFailureReport("C", p, ts) :
        p \in GatePeers, ts \in {now - MAX_MESSAGE_AGE_MS - TickMs, now}}

InitInbox ==
    /\ InitBridges
    /\ Idle({})
    /\ now = InboxStart
    /\ topology \in {[n \in Nodes |-> EmptyMap],
                     [n \in Nodes |-> IF n = GateBridge
                                      THEN [p \in GatePeers |-> DefaultGradient]
                                      ELSE EmptyMap]}
    /\ local_balance = [n \in Nodes |-> IF n = GateBridge THEN 100 ELSE 0]
    /\ genesis = 100
    /\ publish_fn = [n \in Nodes |-> "none"]

NextInbox ==
    \/ \E msg \in GradientInputs : handle_message_gradient(GateBridge, msg)
    \/ \E msg \in CreditInputs : handle_message_credit(GateBridge, msg)
    \/ \E msg \in SeptalInputs : handle_message_septal(GateBridge, msg)
    \/ \E peer \in GatePeers : HandleIsolation(GateBridge, peer)
    \/ \E peer \in GatePeers : HandleRecovery(GateBridge, peer)
    \/ TickAfter(InboxStart, MaxTicks)

SpecInbox == InitInbox /\ [][NextInbox]_vars

(* revival/decomposer.rs: DecompositionPhase, DecompositionState, Decomposer *)

DecompositionPhases ==
    {"CreditsFrozen", "ReservationsReleased", "StateReclaimed", "TopologyUpdated",
     "Complete"}

phase_next_skipping(p) ==
    CASE p = "CreditsFrozen" -> {"ReservationsReleased"}
      [] p = "ReservationsReleased" -> {"StateReclaimed"}
      [] p = "StateReclaimed" -> {"Complete"}
      [] p = "TopologyUpdated" -> {"Complete"}
      [] p = "Complete" -> {}

\* DecompositionPhase::next, an Option
phase_next(p) ==
    CASE p = "CreditsFrozen" -> {"ReservationsReleased"}
      [] p = "ReservationsReleased" -> {"StateReclaimed"}
      [] p = "StateReclaimed" -> {"TopologyUpdated"}
      [] p = "TopologyUpdated" -> {"Complete"}
      [] p = "Complete" -> {}

is_complete(p) == p = "Complete"

\* DecompositionState::new
DecompositionState(node, frozen_credits) ==
    [node |-> node, phase |-> "CreditsFrozen", frozen_credits |-> frozen_credits,
     start_time |-> now, events_emitted |-> << >>]

start_decomposition(node, frozen_credits) ==
    /\ decomposer' = Insert(decomposer, node, DecompositionState(node, frozen_credits))
    /\ advances' = [advances EXCEPT ![node] = 0]
    /\ ret' = Ret("start_decomposition", "Ok", node)
    /\ UNCHANGED notDecomposer

\* DecompositionState::advance on the state get_state_mut hands out for the node
advance(node) ==
    /\ node \in DOMAIN decomposer
    /\ LET next == phase_next(decomposer[node].phase)
       IN IF next /= {}
          THEN /\ decomposer' = [decomposer EXCEPT ![node].phase = CHOOSE p \in next : TRUE]
               /\ advances' = [advances EXCEPT ![node] = @ + 1]
               /\ ret' = Ret("advance", "true", node)
          ELSE /\ UNCHANGED <<decomposer, advances>>
               /\ ret' = Ret("advance", "false", node)
    /\ UNCHANGED notDecomposer

\* DecompositionState::add_event on the state get_state_mut hands out for the node
add_event(node, event) ==
    /\ node \in DOMAIN decomposer
    /\ Len(decomposer[node].events_emitted) < MaxEvents
    /\ decomposer' = [decomposer EXCEPT ![node].events_emitted = Append(@, event)]
    /\ ret' = Ret("add_event", "Ok", node)
    /\ UNCHANGED <<notDecomposer, advances>>

complete_decomposition(node) ==
    /\ IF node \in DOMAIN decomposer
       THEN /\ decomposer' = Remove(decomposer, node)
            /\ ret' = Ret("complete_decomposition", "Some", decomposer[node].events_emitted)
       ELSE /\ UNCHANGED decomposer
            /\ ret' = Ret("complete_decomposition", "None", NoId)
    /\ advances' = [advances EXCEPT ![node] = 0]
    /\ UNCHANGED notDecomposer

(* A decomposer working through the decomposition of failed nodes *)

FrozenAmounts == {0, 100}

RevivalEvents == {"NodeFailure"}

InitDecomposition ==
    /\ InitCommon
    /\ local_balance = [n \in Nodes |-> 0]
    /\ genesis = 0
    /\ publish_fn = [n \in Nodes |-> "none"]

NextDecomposition ==
    \/ \E node \in Nodes, c \in FrozenAmounts : start_decomposition(node, c)
    \/ \E node \in Nodes : advance(node)
    \/ \E node \in Nodes, e \in RevivalEvents : add_event(node, e)
    \/ \E node \in Nodes : complete_decomposition(node)

SpecDecomposition == InitDecomposition /\ [][NextDecomposition]_vars

(* revival/events.rs: RevivalEvent; revival/decomposer.rs: decompose_failed_node *)

\* HashMap<String, String> metadata as a set of <<key, value>> pairs
RevivalEvent(event_type, source, credits, metadata) ==
    [event_type |-> event_type, source |-> source, credits |-> credits,
     timestamp |-> now, metadata |-> metadata]

node_failure(node, credits) == RevivalEvent("NodeFailure", node, credits, {})

reservation_expired(node, credits, reservation_id) ==
    RevivalEvent("ReservationExpired", node, credits,
                 {<<"reservation_id", ToString(reservation_id)>>})

garbage_collected(node, credits, key) ==
    RevivalEvent("GarbageCollected", node, credits, {<<"key", key>>})

\* with_metadata: insert, replacing the value of a key already present
with_metadata(event, key, value) ==
    [event EXCEPT !.metadata = {kv \in @ : kv[1] /= key} \cup {<<key, value>>}]

\* DecompositionContext::estimate_storage_credits
estimate_storage_credits(key) == IF key = "k1" THEN 5 ELSE 7

ReleasedReservations(ctx, node) ==
    [i \in 1..Len(ctx.get_held_reservations) |->
        reservation_expired(node, ctx.get_held_reservations[i].amount,
                            ctx.get_held_reservations[i].reservation_id)]

NotReplicated(item) == ~item.has_replicas

ReclaimedItems(ctx, node) ==
    LET lost == SelectSeq(ctx.get_stored_items, NotReplicated)
    IN [i \in 1..Len(lost) |->
          garbage_collected(node, estimate_storage_credits(lost[i].key), lost[i].key)]

decompose_events_reclaim_first(ctx, node) ==
    IF ~ctx.confirm_failure
    THEN << >>
    ELSE <<with_metadata(node_failure(node, ctx.freeze_node_credits), "phase", "freeze")>>
         \o ReclaimedItems(ctx, node)
         \o ReleasedReservations(ctx, node)
         \o <<with_metadata(node_failure(node, ctx.freeze_node_credits),
                            "phase", "complete")>>

\* The events decompose_failed_node returns
decompose_events(ctx, node) ==
    IF ~ctx.confirm_failure
    THEN << >>
    ELSE <<with_metadata(node_failure(node, ctx.freeze_node_credits), "phase", "freeze")>>
         \o ReleasedReservations(ctx, node)
         \o ReclaimedItems(ctx, node)
         \o <<with_metadata(node_failure(node, ctx.freeze_node_credits),
                            "phase", "complete")>>

\* The context methods decompose_failed_node calls
decompose_calls(ctx) ==
    IF ~ctx.confirm_failure
    THEN <<"confirm_failure">>
    ELSE <<"confirm_failure", "freeze_node_credits", "get_held_reservations",
           "get_stored_items">>
         \o [i \in 1..Len(SelectSeq(ctx.get_stored_items, NotReplicated)) |->
                "estimate_storage_credits"]

decompose_failed_node(node) ==
    /\ events' = decompose_events(context, node)
    /\ context_calls' = decompose_calls(context)
    /\ ret' = Ret("decompose_failed_node", "Ok", node)
    /\ UNCHANGED <<notDecompose, context>>

(* decompose_failed_node under the contexts of a failed or a live node *)

ReservationIds == {1, 2}
ReservationAmounts == {10, 20}
ItemKeys == {"k1", "k2"}

\* The sequences of at most MaxHeld elements of S, without repetition
RECURSIVE SeqsOf(_, _)
SeqsOf(S, k) ==
    IF k = 0 THEN {<< >>}
    ELSE {<< >>} \cup {<<x>> \o t : x \in S, t \in SeqsOf(S, k - 1)}

NoRepeat(seq, key(_)) ==
    \A i, j \in 1..Len(seq) : key(seq[i]) = key(seq[j]) => i = j

ReservationKey(r) == r.reservation_id
ItemKey(item) == item.key

HeldReservations ==
    {seq \in SeqsOf([reservation_id : ReservationIds, amount : ReservationAmounts,
                     consumed : BOOLEAN], MaxHeld) : NoRepeat(seq, ReservationKey)}

StoredItems ==
    {seq \in SeqsOf([key : ItemKeys, has_replicas : BOOLEAN], MaxHeld) :
        NoRepeat(seq, ItemKey)}

Contexts ==
    [confirm_failure : BOOLEAN, freeze_node_credits : FrozenAmounts,
     get_held_reservations : HeldReservations, get_stored_items : StoredItems]

InitDecompose ==
    /\ InitBridges
    /\ Idle({"decompose"})
    /\ now = 0
    /\ topology = [n \in Nodes |-> EmptyMap]
    /\ local_balance = [n \in Nodes |-> 0]
    /\ genesis = 0
    /\ publish_fn = [n \in Nodes |-> "none"]
    /\ context \in Contexts
    /\ events = << >>
    /\ context_calls = << >>

NextDecompose ==
    \E node \in Nodes : decompose_failed_node(node)

SpecDecompose == InitDecompose /\ [][NextDecompose]_vars

(* revival/pool.rs: the pool filling up and plan_redistribution planning its spending *)

add_recycled(amount) ==
    /\ available_for_redistribution(pool) + amount <= MaxPoolCredits
    /\ pool' = [pool EXCEPT !.recycled_credits = credits_add(@, amount)]
    /\ ret' = Ret("add_recycled", "Ok", NoId)
    /\ UNCHANGED <<notPlan, planVars>>

add_tax(amount) ==
    /\ available_for_redistribution(pool) + amount <= MaxPoolCredits
    /\ pool' = [pool EXCEPT !.entropy_tax_collected = credits_add(@, amount)]
    /\ ret' = Ret("add_tax", "Ok", NoId)
    /\ UNCHANGED <<notPlan, planVars>>

clear_redistribution_pools ==
    /\ pool' = [pool EXCEPT !.recycled_credits = 0, !.entropy_tax_collected = 0]
    /\ ret' = Ret("clear_redistribution_pools", "Ok", NoId)
    /\ UNCHANGED <<notPlan, planVars>>

plan_redistribution ==
    /\ plan' = PlanOf(pool, metrics)
    /\ ret' = Ret("plan_redistribution", "Ok", NoId)
    /\ UNCHANGED <<notPlan, pool, metrics>>

NodeLists == {seq \in SeqsOf(Nodes, MaxHeld) : \A i, j \in 1..Len(seq) : seq[i] = seq[j] => i = j}

\* Providers that differ in what they report of B
MetricsProviders ==
    {[get_all_nodes |-> all, get_nexus_nodes |-> nexus, get_new_nodes |-> new,
      get_uptime |-> [n \in Nodes |-> IF n = "B" THEN up ELSE MIN_NEXUS_UPTIME_FOR_MAINTENANCE],
      get_reputation |-> [n \in Nodes |-> IF n = "B" THEN rep ELSE MIN_REPUTATION_FOR_SUPPORT],
      get_balance |-> [n \in Nodes |-> IF n = "B" THEN bal ELSE 0],
      is_healthy |-> [n \in Nodes |-> n = "B" => ok]] :
        all \in NodeLists, nexus \in NodeLists, new \in NodeLists,
        up \in {MIN_NEXUS_UPTIME_FOR_MAINTENANCE - 5, MIN_NEXUS_UPTIME_FOR_MAINTENANCE},
        rep \in {MIN_REPUTATION_FOR_SUPPORT - 10, MIN_REPUTATION_FOR_SUPPORT},
        bal \in {SUBSIDY_THRESHOLD - 1, SUBSIDY_THRESHOLD},
        ok \in BOOLEAN}

RecycledAmounts == {57}
TaxAmounts == {43}

InitPlan ==
    /\ InitBridges
    /\ Idle({"plan"})
    /\ now = 0
    /\ topology = [n \in Nodes |-> EmptyMap]
    /\ local_balance = [n \in Nodes |-> 0]
    /\ genesis = 0
    /\ publish_fn = [n \in Nodes |-> "none"]
    /\ metrics \in MetricsProviders
    /\ plan = DefaultPlan

NextPlan ==
    \/ \E amount \in RecycledAmounts : add_recycled(amount)
    \/ \E amount \in TaxAmounts : add_tax(amount)
    \/ clear_redistribution_pools
    \/ plan_redistribution

SpecPlan == InitPlan /\ [][NextPlan]_vars

(* plan_redistribution on pools of up to 2^62 credits *)

plan_redistribution_u64 ==
    /\ plan' = PlanOfU64(pool, metrics)
    /\ ret' = Ret("plan_redistribution", "Ok", NoId)
    /\ UNCHANGED <<notPlan, pool, metrics>>

\* Pools of 0, 57, 2^53, 2^55 and 2^62 recycled credits, with 0 or 7 credits of tax
PoolsU64 ==
    {[recycled_credits |-> recycled, entropy_tax_collected |-> tax,
      maintenance_fund |-> << >>, reserve_buffer |-> << >>] :
        recycled \in {Bits(0), Bits(57)} \cup {ShiftLeft(Bits(1), e) : e \in {53, 55, 62}},
        tax \in {Bits(0), Bits(7)}}

\* Providers of healthy nodes of a high uptime, a low balance and a good reputation
ProvidersU64 ==
    {m \in MetricsProviders :
        /\ m.get_uptime["B"] = MIN_NEXUS_UPTIME_FOR_MAINTENANCE
        /\ m.get_reputation["B"] = MIN_REPUTATION_FOR_SUPPORT
        /\ m.get_balance["B"] = SUBSIDY_THRESHOLD - 1
        /\ m.is_healthy["B"]}

InitPlanU64 ==
    /\ InitBridges
    /\ Idle({"plan", "pool"})
    /\ now = 0
    /\ topology = [n \in Nodes |-> EmptyMap]
    /\ local_balance = [n \in Nodes |-> 0]
    /\ genesis = 0
    /\ publish_fn = [n \in Nodes |-> "none"]
    /\ pool \in PoolsU64
    /\ metrics \in ProvidersU64
    /\ plan = DefaultPlanU64

NextPlanU64 == plan_redistribution_u64

SpecPlanU64 == InitPlanU64 /\ [][NextPlanU64]_vars

(* nexus/election.rs: NexusElector *)

Abs(x) == IF x < 0 THEN -x ELSE x

\* normalize_bandwidth, in hundredths
normalize_bandwidth(bandwidth) ==
    IF bandwidth >= MAX_EXPECTED_BANDWIDTH THEN 100
    ELSE (bandwidth * 100) \div MAX_EXPECTED_BANDWIDTH

\* normalize_connectivity, in hundredths
normalize_connectivity(leaf_count) ==
    LET optimal == (MIN_LEAVES_PER_NEXUS + MAX_LEAVES_PER_NEXUS) \div 2
    IN 100 - (Abs(leaf_count - optimal) * 100) \div MAX_LEAVES_PER_NEXUS

\* calculate_election_score, in thousandths: exact on the model's metrics, whose
\* scores are equal only for equal metrics
calculate_election_score(candidate) ==
    candidate.uptime * UPTIME_WEIGHT
        + normalize_bandwidth(candidate.bandwidth) * BANDWIDTH_WEIGHT
        + candidate.reputation * REPUTATION_WEIGHT
        + normalize_connectivity(candidate.current_leaf_count) * CONNECTIVITY_WEIGHT

is_nexus_eligible_always(uptime, bandwidth, reputation) == TRUE
is_nexus_eligible(uptime, bandwidth, reputation) ==
    /\ uptime >= MIN_NEXUS_UPTIME
    /\ bandwidth >= MIN_NEXUS_BANDWIDTH
    /\ reputation >= MIN_NEXUS_REPUTATION

build_candidate(m, node) ==
    [node |-> node, uptime |-> m[node].uptime, bandwidth |-> m[node].bandwidth,
     reputation |-> m[node].reputation,
     current_leaf_count |-> m[node].connection_count, election_score |-> 0]

\* sort_by on descending reputation: a stable sort, equal elements keep their order
RECURSIVE SortByReputation(_)
SortByReputation(cs) ==
    IF cs = << >> THEN << >>
    ELSE LET sorted == SortByReputation(SubSeq(cs, 1, Len(cs) - 1))
             last == cs[Len(cs)]
             ahead == {i \in 1..Len(sorted) : sorted[i].reputation >= last.reputation}
             k == IF ahead = {} THEN 0 ELSE CHOOSE i \in ahead : \A j \in ahead : j <= i
         IN SubSeq(sorted, 1, k) \o <<last>> \o SubSeq(sorted, k + 1, Len(sorted))

\* Iterator::max_by: of several greatest elements the last one
RECURSIVE MaxByScore(_)
MaxByScore(cs) ==
    IF Len(cs) = 1 THEN cs[1]
    ELSE LET best == MaxByScore(SubSeq(cs, 1, Len(cs) - 1))
             last == cs[Len(cs)]
         IN IF last.election_score >= best.election_score THEN last ELSE best

Eligible(c) == is_nexus_eligible(c.uptime, c.bandwidth, c.reputation)

\* NexusElector::elect, an Option<NodeId>
ElectOf(m, nodes) ==
    IF nodes = << >> THEN {}
    ELSE LET all_candidates == [i \in 1..Len(nodes) |-> build_candidate(m, nodes[i])]
             qualified == SelectSeq(all_candidates, Eligible)
             candidates ==
                IF qualified = << >>
                THEN SubSeq(SortByReputation(all_candidates), 1,
                            IF Len(all_candidates) < 3 THEN Len(all_candidates) ELSE 3)
                ELSE qualified
             scored == [i \in 1..Len(candidates) |->
                          [candidates[i] EXCEPT
                              !.election_score = calculate_election_score(candidates[i])]]
         IN IF scored = << >> THEN {} ELSE {MaxByScore(scored).node}

elect(nodes) ==
    /\ ret' = Ret("elect", ElectOf(elector, nodes), nodes)
    /\ UNCHANGED <<notElector, elector>>

(* An elector asked to elect the nexus of one region after another *)

\* Metrics on either side of each eligibility threshold: A and B vary in uptime
\* and reputation, C in uptime and bandwidth, D passes no threshold
NodeMetricsValues(n) ==
    [uptime : IF n = "D" THEN {MIN_NEXUS_UPTIME - 5}
              ELSE {MIN_NEXUS_UPTIME - 5, MIN_NEXUS_UPTIME + 1},
     bandwidth : IF n = "D" THEN {MIN_NEXUS_BANDWIDTH - 5}
                 ELSE IF n = "C" THEN {MIN_NEXUS_BANDWIDTH - 5, MAX_EXPECTED_BANDWIDTH}
                 ELSE {MIN_NEXUS_BANDWIDTH + 10},
     reputation : IF n = "D" THEN {MIN_NEXUS_REPUTATION - 10}
                  ELSE IF n = "C" THEN {MIN_NEXUS_REPUTATION + 10}
                  ELSE {MIN_NEXUS_REPUTATION - 10, MIN_NEXUS_REPUTATION + 10},
     connection_count : {0}]

Regions ==
    {seq \in SeqsOf(RegionNodes, MaxRegion) : \A i, j \in 1..Len(seq) : seq[i] = seq[j] => i = j}

InitElection ==
    /\ InitBridges
    /\ Idle({"elector"})
    /\ now = 0
    /\ topology = [n \in Nodes |-> EmptyMap]
    /\ local_balance = [n \in Nodes |-> 0]
    /\ genesis = 0
    /\ publish_fn = [n \in Nodes |-> "none"]
    /\ elector \in {m \in [RegionNodes -> UNION {NodeMetricsValues(n) : n \in RegionNodes}] :
                        \A n \in RegionNodes : m[n] \in NodeMetricsValues(n)}

NextElection ==
    \E nodes \in Regions : elect(nodes)

SpecElection == InitElection /\ [][NextElection]_vars

(* nexus/types.rs: NexusRole; nexus/topology.rs: TopologyManager, determine_gossip_path; *)
(* bridge/mod.rs: handle_election_message                                              *)

\* impl Default for NexusRole
DefaultRole == [role_type |-> "Leaf", parent |-> {}, children |-> << >>]

NexusRole_leaf(parent) == [role_type |-> "Leaf", parent |-> {parent}, children |-> << >>]

NexusRole_nexus(parent, children) ==
    [role_type |-> "Nexus", parent |-> parent, children |-> children]

NexusRole_poteau_mitan(children) ==
    [role_type |-> "PoteauMitan", parent |-> {}, children |-> children]

\* TopologyManager::get_role: the role stored for the node, or the default role
RoleOf(t, node) == IF node \in DOMAIN t THEN t[node] ELSE DefaultRole

set_topology(node, role) ==
    /\ topologies' = Insert(topologies, node, role)
    /\ ret' = Ret("set_topology", "Ok", node)
    /\ UNCHANGED notTopologies

get_role(node) ==
    /\ ret' = Ret("get_role", RoleOf(topologies, node), node)
    /\ UNCHANGED <<notTopologies, topologies>>

\* handle_election_message on ElectionMessage::Result: a known winner becomes a Nexus
handle_election_result(winner) ==
    /\ topologies' = IF winner \in DOMAIN topologies
                     THEN [topologies EXCEPT ![winner].role_type = "Nexus"]
                     ELSE topologies
    /\ ret' = Ret("handle_election_message", "Ok", winner)
    /\ UNCHANGED notTopologies

\* determine_gossip_path from a node of the manager: the path type and the hops,
\* or the panic of expect("Leaf must have parent nexus"); a Nexus is given an
\* entropy budget that does (direct) or does not allow direct routing
GossipPathOf(from_role, to, direct, nearest_poteau_mitan) ==
    CASE from_role.role_type = "Leaf" ->
            IF from_role.parent = {}
            THEN [path_type |-> "panic", hops |-> << >>]
            ELSE [path_type |-> "ViaHub",
                  hops |-> <<CHOOSE nexus \in from_role.parent : TRUE, to>>]
      [] from_role.role_type = "Nexus" ->
            IF direct
            THEN [path_type |-> "Direct", hops |-> <<to>>]
            ELSE [path_type |-> "ViaSuperHub",
                  hops |-> <<IF from_role.parent = {} THEN nearest_poteau_mitan
                             ELSE CHOOSE super_nexus \in from_role.parent : TRUE, to>>]
      [] from_role.role_type = "PoteauMitan" ->
            [path_type |-> "Direct", hops |-> <<to>>]

determine_gossip_path(from, to, direct) ==
    /\ ret' = Ret("determine_gossip_path",
                  GossipPathOf(RoleOf(topologies, from), to, direct, "C"), from)
    /\ UNCHANGED <<notTopologies, topologies>>

(* The topology of a bridge under set_topology and election results *)

Roles ==
    {NexusRole_leaf(p) : p \in Peers}
        \cup {NexusRole_nexus(parent, << >>) : parent \in {{}} \cup {{p} : p \in Peers}}
        \cup {NexusRole_poteau_mitan(<< >>)}

InitTopology ==
    /\ InitBridges
    /\ Idle({"topologies"})
    /\ now = 0
    /\ topology = [n \in Nodes |-> EmptyMap]
    /\ local_balance = [n \in Nodes |-> 0]
    /\ genesis = 0
    /\ publish_fn = [n \in Nodes |-> "none"]
    /\ topologies = EmptyMap

NextTopology ==
    \/ \E node \in Nodes, role \in Roles : set_topology(node, role)
    \/ \E node \in Peers : get_role(node)
    \/ \E winner \in Peers : handle_election_result(winner)
    \/ \E from \in Peers, to \in Nodes, direct \in BOOLEAN :
          determine_gossip_path(from, to, direct)

SpecTopology == InitTopology /\ [][NextTopology]_vars

(* bridge/mod.rs: the lock guards of the bridge operations.  An operation is the *)
(* sequence of its read().await / write().await calls, the ends of the scopes   *)
(* that drop the guards, and its publish calls, in program order.               *)

Read(cell) == [kind |-> "read", cell |-> cell]
Write(cell) == [kind |-> "write", cell |-> cell]
Drop(cell) == [kind |-> "drop", cell |-> cell]
Publish == [kind |-> "publish", cell |-> "none"]

Operations ==
    {"transfer", "update_gradient", "record_failure", "handle_gradient",
     "handle_election_result", "handle_transfer", "handle_confirmation",
     "handle_balance_query", "handle_healing_probe"}

ProgramNested(o) ==
    CASE o = "transfer" ->
            <<Read("local_balance"), Drop("local_balance"),
              Write("local_balance"), Write("pending_transfers"),
              Drop("pending_transfers"), Drop("local_balance"), Publish>>
      [] o = "update_gradient" ->
            <<Write("local_gradient"), Drop("local_gradient"),
              Read("local_gradient"), Publish, Drop("local_gradient")>>
      [] o = "record_failure" ->
            <<Write("septal_gates"), Drop("septal_gates"), Publish>>
      [] o = "handle_gradient" ->
            <<Read("septal_gates"), Drop("septal_gates"),
              Write("gradients"), Drop("gradients"),
              Write("topology"), Drop("topology")>>
      [] o = "handle_election_result" ->
            <<Write("topology"), Drop("topology")>>
      [] o = "handle_transfer" ->
            <<Write("local_balance"), Publish, Drop("local_balance"),
              Write("known_balances"), Drop("known_balances")>>
      [] o = "handle_confirmation" ->
            <<Write("pending_transfers"), Drop("pending_transfers")>>
      [] o = "handle_balance_query" ->
            <<Read("local_balance"), Publish, Drop("local_balance")>>
      [] o = "handle_healing_probe" ->
            <<Publish>>

\* transfer that succeeds; update_gradient with a publisher; record_failure;
\* handle_message on a Gradient from a sender that is not isolated, on an
\* ElectionResult, on a Transfer to this bridge, on a Confirmation, on a
\* BalanceQuery for this bridge and on a HealingProbe for this bridge
Program(o) ==
    CASE o = "transfer" ->
            <<Read("local_balance"), Drop("local_balance"),
              Write("local_balance"), Drop("local_balance"),
              Write("pending_transfers"), Drop("pending_transfers"), Publish>>
      [] o = "update_gradient" ->
            <<Write("local_gradient"), Drop("local_gradient"),
              Read("local_gradient"), Publish, Drop("local_gradient")>>
      [] o = "record_failure" ->
            <<Write("septal_gates"), Drop("septal_gates"), Publish>>
      [] o = "handle_gradient" ->
            <<Read("septal_gates"), Drop("septal_gates"),
              Write("gradients"), Drop("gradients"),
              Write("topology"), Drop("topology")>>
      [] o = "handle_election_result" ->
            <<Write("topology"), Drop("topology")>>
      [] o = "handle_transfer" ->
            <<Write("local_balance"), Publish, Drop("local_balance"),
              Write("known_balances"), Drop("known_balances")>>
      [] o = "handle_confirmation" ->
            <<Write("pending_transfers"), Drop("pending_transfers")>>
      [] o = "handle_balance_query" ->
            <<Read("local_balance"), Publish, Drop("local_balance")>>
      [] o = "handle_healing_probe" ->
            <<Publish>>

\* The instruction a running task is at
Instruction(t) == Program(task_op[t])[task_pc[t]]

Running(t) == task_op[t] /= "idle" /\ task_pc[t] <= Len(Program(task_op[t]))

AtKind(t, kinds) == Running(t) /\ Instruction(t).kind \in kinds

Queued(t, cell) == \E i \in 1..Len(lock_queue[cell]) : lock_queue[cell][i].task = t

\* The cells a task holds a guard of, and those it holds a write guard of
Held(t) == {c \in Cells : \E h \in lock_holders[c] : h.task = t}
WriteHeld(t) == {c \in Cells : [task |-> t, mode |-> "write"] \in lock_holders[c]}

\* A task calls an operation of the bridge
StartOperation(t, o) ==
    /\ task_op[t] = "idle"
    /\ task_op' = [task_op EXCEPT ![t] = o]
    /\ task_pc' = [task_pc EXCEPT ![t] = 1]
    /\ UNCHANGED <<notLocks, ret, lock_holders, lock_queue>>

\* read().await / write().await: the task joins the queue of the cell
RequestLock(t) ==
    /\ AtKind(t, {"read", "write"})
    /\ ~Queued(t, Instruction(t).cell)
    /\ lock_queue' = [lock_queue EXCEPT ![Instruction(t).cell] =
                        Append(@, [task |-> t, mode |-> Instruction(t).kind])]
    /\ UNCHANGED <<notLocks, ret, task_op, task_pc, lock_holders>>

\* tokio's RwLock is fair: the first waiter gets the lock, a reader when no
\* writer holds it and a writer when nobody holds it
AcquireLock(t) ==
    /\ AtKind(t, {"read", "write"})
    /\ LET cell == Instruction(t).cell
           mode == Instruction(t).kind
       IN /\ lock_queue[cell] /= << >>
          /\ Head(lock_queue[cell]).task = t
          /\ IF mode = "read"
             THEN \A h \in lock_holders[cell] : h.mode = "read"
             ELSE lock_holders[cell] = {}
          /\ lock_queue' = [lock_queue EXCEPT ![cell] = Tail(@)]
          /\ lock_holders' = [lock_holders EXCEPT ![cell] =
                                @ \cup {[task |-> t, mode |-> mode]}]
    /\ task_pc' = [task_pc EXCEPT ![t] = @ + 1]
    /\ UNCHANGED <<notLocks, ret, task_op>>

\* the end of the scope of a guard
DropGuard(t) ==
    /\ AtKind(t, {"drop"})
    /\ lock_holders' = [lock_holders EXCEPT ![Instruction(t).cell] =
                          {h \in @ : h.task /= t}]
    /\ task_pc' = [task_pc EXCEPT ![t] = @ + 1]
    /\ UNCHANGED <<notLocks, ret, task_op, lock_queue>>

\* self.publish(message), with a publish primitive that returns
PublishCall(t) ==
    /\ AtKind(t, {"publish"})
    /\ task_pc' = [task_pc EXCEPT ![t] = @ + 1]
    /\ ret' = Ret("publish", "Ok", NoId)
    /\ UNCHANGED <<notLocks, task_op, lock_holders, lock_queue>>

\* the operation returns
ReturnFrom(t) ==
    /\ task_op[t] /= "idle"
    /\ ~Running(t)
    /\ task_op' = [task_op EXCEPT ![t] = "idle"]
    /\ task_pc' = [task_pc EXCEPT ![t] = 1]
    /\ UNCHANGED <<notLocks, ret, lock_holders, lock_queue>>

TaskStep(t) ==
    \/ RequestLock(t)
    \/ AcquireLock(t)
    \/ DropGuard(t)
    \/ PublishCall(t)
    \/ ReturnFrom(t)

(* Tasks running operations of one bridge concurrently *)

InitLocks ==
    /\ InitBridges
    /\ Idle({"locks"})
    /\ now = 0
    /\ topology = [n \in Nodes |-> EmptyMap]
    /\ local_balance = [n \in Nodes |-> 0]
    /\ genesis = 0
    /\ publish_fn = [n \in Nodes |-> "ok"]
    /\ NoTasks

NextLocks ==
    \/ \E t \in Tasks, o \in Operations : StartOperation(t, o)
    \/ \E t \in Tasks : RequestLock(t)
    \/ \E t \in Tasks : AcquireLock(t)
    \/ \E t \in Tasks : DropGuard(t)
    \/ \E t \in Tasks : PublishCall(t)
    \/ \E t \in Tasks : ReturnFrom(t)

SpecLocks == InitLocks /\ [][NextLocks]_vars

\* The executor polls every task that can make progress
SpecLocksFair == SpecLocks /\ \A t \in Tasks : WF_vars(TaskStep(t))

(* bridge/mod.rs: start_gradient_broadcast, the broadcaster task it spawns, stop *)

\* A spawned broadcaster: suspended in ticker.tick().await ("sleeping") or in
\* local_gradient.read().await ("reading"), being polled between the read and
\* the next tick().await ("running"), or cancelled.  ticks counts the ticks it
\* has taken, published the gradients it has published.
NewBroadcaster ==
    [state |-> "sleeping", aborted |-> FALSE, ticks |-> 0, published |-> 0]

abort_detached(task) == task
\* AbortHandle::abort: a suspended task is cancelled where it is; a task being
\* polled runs on to its next await point
abort(task) ==
    IF task.state \in {"sleeping", "reading"}
    THEN [task EXCEPT !.state = "cancelled", !.aborted = TRUE]
    ELSE [task EXCEPT !.aborted = TRUE]

start_gradient_broadcast(n) ==
    /\ Len(broadcasters) < MaxBroadcasters
    /\ IF publish_fn[n] = "none"
       THEN /\ ret' = Ret("start_gradient_broadcast", "NotConnected", NoId)
            /\ UNCHANGED broadcastVars
       ELSE /\ broadcasters' = Append(broadcasters, NewBroadcaster)
            /\ broadcast_handles' = Append(broadcast_handles, Len(broadcasters) + 1)
            /\ ret' = Ret("start_gradient_broadcast", "Ok", NoId)
    /\ UNCHANGED <<notBroadcast, net, delivered>>

\* The interval of a broadcaster elapses: the task wakes and comes to
\* local_gradient.read().await
BroadcasterTick(i) ==
    /\ broadcasters[i].state = "sleeping"
    /\ broadcasters[i].ticks < MaxBroadcastTicks
    /\ broadcasters' = [broadcasters EXCEPT ![i].state = "reading", ![i].ticks = @ + 1]
    /\ UNCHANGED <<notBroadcast, net, delivered, broadcast_handles, ret>>

\* The read guard is granted and the task is polled on
BroadcasterRead(i) ==
    /\ broadcasters[i].state = "reading"
    /\ broadcasters' = [broadcasters EXCEPT ![i].state = "running"]
    /\ UNCHANGED <<notBroadcast, net, delivered, broadcast_handles, ret>>

\* The rest of the loop body: the message is built and handed to the captured
\* publish_fn, and the task comes to tick().await again, where an aborted task ends
BroadcasterPublish(n, i) ==
    /\ broadcasters[i].state = "running"
    /\ broadcasters' = [broadcasters EXCEPT
                          ![i].state = IF broadcasters[i].aborted THEN "cancelled"
                                       ELSE "sleeping",
                          ![i].published = @ + 1]
    /\ net' = Append(net, GradientMessage(n, DefaultGradient, now))
    /\ delivered' = Extend(delivered)
    /\ UNCHANGED <<notBroadcast, broadcast_handles, ret>>

\* EnrBridge::stop, also run by Drop
stop ==
    /\ broadcasters' = [i \in 1..Len(broadcasters) |->
                          IF \E k \in 1..Len(broadcast_handles) : broadcast_handles[k] = i
                          THEN abort(broadcasters[i])
                          ELSE broadcasters[i]]
    /\ broadcast_handles' = << >>
    /\ ret' = Ret("stop", "Ok", NoId)
    /\ UNCHANGED <<notBroadcast, net, delivered>>

(* A bridge, connected or not, starting and stopping its gradient broadcast *)

InitBroadcast ==
    /\ InitBridges
    /\ Idle({"broadcast"})
    /\ now = 0
    /\ topology = [n \in Nodes |-> EmptyMap]
    /\ local_balance = [n \in Nodes |-> 0]
    /\ genesis = 0
    /\ publish_fn \in [Nodes -> {"none", "ok"}]
    /\ publish_fn["B"] = "none"
    /\ broadcasters = << >>
    /\ broadcast_handles = << >>

NextBroadcast ==
    \/ start_gradient_broadcast(GateBridge)
    \/ \E i \in 1..Len(broadcasters) : BroadcasterTick(i)
    \/ \E i \in 1..Len(broadcasters) : BroadcasterRead(i)
    \/ \E i \in 1..Len(broadcasters) : BroadcasterPublish(GateBridge, i)
    \/ stop

SpecBroadcast == InitBroadcast /\ [][NextBroadcast]_vars

(* bridge/mod.rs: transfer as the tasks of one bridge run it concurrently.  A *)
(* call holds no lock between two of its guarded blocks, so that every block  *)
(* is one step and the calls interleave where a lock is acquired.             *)

\* transfer is called: the validation of the arguments
TransferCall(t, n, to, amount) ==
    /\ calls[t].op = "idle"
    /\ IF is_zero(amount) \/ to = n
       THEN /\ ret' = Ret("transfer", IF is_zero(amount) THEN "ZeroAmount"
                                      ELSE "SelfTransfer", NoId)
            /\ calls' = [calls EXCEPT ![t] =
                           [op |-> "returned", stage |-> "returned", amount |-> amount,
                            result |-> ret'.result]]
       ELSE /\ calls' = [calls EXCEPT ![t] =
                           [op |-> "transfer", stage |-> "check", bridge |-> n, to |-> to,
                            amount |-> amount]]
            /\ UNCHANGED ret
    /\ UNCHANGED <<now, bridgeVars, gate_events, notCalls>>

\* the block under local_balance.read(): the balance check; then the transfer
\* is built, with the clock as nonce
TransferCheck(t) ==
    /\ calls[t].op = "transfer" /\ calls[t].stage = "check"
    /\ LET c == calls[t]
       IN IF local_balance[c.bridge] < c.amount
          THEN /\ ret' = Ret("transfer", "InsufficientBalance", NoId)
               /\ calls' = [calls EXCEPT ![t] =
                              [op |-> "returned", stage |-> "returned",
                               amount |-> c.amount, result |-> "InsufficientBalance"]]
          ELSE /\ calls' = [calls EXCEPT ![t] =
                              [c EXCEPT !.stage = "reserve"] @@
                              [transfer |-> CreditTransfer(
                                  from_transfer(c.bridge, c.to, c.amount, now),
                                  c.bridge, c.to, c.amount, now)]]
               /\ UNCHANGED ret
    /\ UNCHANGED <<now, bridgeVars, gate_events, notCalls>>

\* the block under local_balance.write(): the credits are reserved
TransferReserve(t) ==
    /\ calls[t].op = "transfer" /\ calls[t].stage = "reserve"
    /\ local_balance' = [local_balance EXCEPT ![calls[t].bridge] =
                            saturating_sub(@, calls[t].amount)]
    /\ calls' = [calls EXCEPT ![t].stage = "store"]
    /\ UNCHANGED <<now, pending_transfers, known_balances, septal_gates, gradientVars,
                   publish_fn, net, delivered, gate_events, ret, notCalls>>

\* the block under pending_transfers.write()
TransferStore(t) ==
    /\ calls[t].op = "transfer" /\ calls[t].stage = "store"
    /\ pending_transfers' = [pending_transfers EXCEPT ![calls[t].bridge] =
                                Insert(@, calls[t].transfer.id, calls[t].transfer)]
    /\ calls' = [calls EXCEPT ![t].stage = "publish"]
    /\ UNCHANGED <<now, local_balance, known_balances, septal_gates, gradientVars,
                   publish_fn, net, delivered, gate_events, ret, notCalls>>

\* the transfer is published and the call returns
TransferPublish(t) ==
    /\ calls[t].op = "transfer" /\ calls[t].stage = "publish"
    /\ Published(calls[t].bridge, calls[t].transfer)
    /\ delivered' = Extend(delivered)
    /\ ret' = IF publish(calls[t].bridge) = "Ok"
              THEN Ret("transfer", "Ok", calls[t].transfer.id)
              ELSE Ret("transfer", "Cancelled", NoId)
    /\ calls' = [calls EXCEPT ![t] =
                   [op |-> "returned", stage |-> "returned", amount |-> calls[t].amount,
                    result |-> ret'.result]]
    /\ UNCHANGED <<now, local_balance, pending_transfers, known_balances, septal_gates,
                   gradientVars, publish_fn, gate_events, notCalls>>

(* Two tasks, each calling transfer once on the same connected bridge *)

InitConcurrent ==
    /\ InitBridges
    /\ Idle({"calls"})
    /\ now = 0
    /\ topology = [n \in Nodes |-> EmptyMap]
    /\ local_balance = [n \in Nodes |-> RoundtripAmount * 2]
    /\ genesis = SumOver(local_balance, Nodes)
    /\ publish_fn = [n \in Nodes |-> "ok"]
    /\ calls = [t \in Tasks |-> NoCall]

NextConcurrent ==
    \/ \E t \in Tasks, to \in Peers, amount \in {0, RoundtripAmount, RoundtripAmount * 2} :
          TransferCall(t, GateBridge, to, amount)
    \/ \E t \in Tasks : TransferCheck(t)
    \/ \E t \in Tasks : TransferReserve(t)
    \/ \E t \in Tasks : TransferStore(t)
    \/ \E t \in Tasks : TransferPublish(t)

SpecConcurrent == InitConcurrent /\ [][NextConcurrent]_vars

(* bridge/mod.rs: handle_gradient_message as a task runs it beside the operations *)
(* on the gates: the gate check, the gradient store and the topology update are   *)
(* three guarded blocks.                                                          *)

\* the block under septal_gates.read(): a message of an isolated sender is ignored
GradientCheck(t, n, msg) ==
    /\ calls[t].op = "idle"
    /\ calls' = [calls EXCEPT ![t] =
                   IF is_isolated(n, msg.node_id)
                   THEN NoCall
                   ELSE [op |-> "handle_gradient", stage |-> "gradients", bridge |-> n,
                         msg |-> msg]]
    /\ ret' = IF is_isolated(n, msg.node_id)
              THEN Ret("handle_gradient_message", "Ok", NoId)
              ELSE ret
    /\ UNCHANGED <<now, bridgeVars, gate_events, notCalls>>

\* the block under gradients.write()
GradientStore(t) ==
    /\ calls[t].op = "handle_gradient" /\ calls[t].stage = "gradients"
    /\ gradients' = [gradients EXCEPT ![calls[t].bridge] =
                        Insert(@, calls[t].msg.node_id,
                               to_resource_gradient(calls[t].msg.gradient))]
    /\ calls' = [calls EXCEPT ![t].stage = "topology"]
    /\ UNCHANGED <<now, ledgerVars, septal_gates, topology, publish_fn, gate_events, ret,
                   notCalls>>

\* the block under topology.write(), and the return
GradientTopology(t) ==
    /\ calls[t].op = "handle_gradient" /\ calls[t].stage = "topology"
    /\ topology' = [topology EXCEPT ![calls[t].bridge] =
                       update_gradient(@, calls[t].msg.node_id,
                                       to_resource_gradient(calls[t].msg.gradient))]
    /\ calls' = [calls EXCEPT ![t] = NoCall]
    /\ ret' = Ret("handle_gradient_message", "Ok", NoId)
    /\ UNCHANGED <<now, ledgerVars, septal_gates, gradients, publish_fn, gate_events,
                   notCalls>>

(* A bridge handling the gradients of a peer while its host and the network *)
(* report failures of that peer                                             *)

InitRace ==
    /\ InitBridges
    /\ Idle({"calls"})
    /\ now = 0
    /\ topology = [n \in Nodes |-> IF n = GateBridge
                                   THEN [p \in GatePeers |-> DefaultGradient]
                                   ELSE EmptyMap]
    /\ local_balance = [n \in Nodes |-> 0]
    /\ genesis = 0
    /\ publish_fn = [n \in Nodes |-> "none"]
    /\ calls = [t \in Tasks |-> NoCall]

NextRace ==
    \/ \E t \in Tasks, p \in GatePeers, g \in GradientPayloads :
          GradientCheck(t, GateBridge, GradientMessage(p, g, now))
    \/ \E t \in Tasks : GradientStore(t)
    \/ \E t \in Tasks : GradientTopology(t)
    \/ \E peer \in GatePeers : record_failure(GateBridge, peer)
    \/ \E peer \in GatePeers : HandleFailureReport(GateBridge, peer)
    \/ \E peer \in GatePeers : HandleIsolation(GateBridge, peer)

SpecRace == InitRace /\ [][NextRace]_vars

(* core/types.rs: CreditReservation *)

CreditReservation_new(id, owner, amount, ttl) ==
    [id |-> id, account |-> owner, amount |-> amount, created_at |-> now, ttl |-> ttl,
     consumed |-> FALSE]

reservation_is_valid(r) == r.ttl > 0

is_expired(r, at) == at > r.created_at + r.ttl

is_valid ==
    /\ ret' = Ret("is_valid", reservation_is_valid(reservation), NoId)
    /\ UNCHANGED <<notReservation, reservation>>

check_expired ==
    /\ ret' = Ret("is_expired", is_expired(reservation, now), NoId)
    /\ UNCHANGED <<notReservation, reservation>>

\* CreditReservation::consume: returns nothing
consume ==
    /\ reservation' = [reservation EXCEPT !.consumed = TRUE]
    /\ ret' = Ret("consume", "Ok", NoId)
    /\ UNCHANGED notReservation

(* A reservation created at time 0, consumed and queried while time passes *)

ReservationTtls == {0, TickMs, 2 * TickMs}
ReservationCredits == {50, 100}

InitReservation ==
    /\ InitBridges
    /\ Idle({"reservation"})
    /\ now = 0
    /\ topology = [n \in Nodes |-> EmptyMap]
    /\ local_balance = [n \in Nodes |-> 0]
    /\ genesis = 0
    /\ publish_fn = [n \in Nodes |-> "none"]
    /\ \E amount \in ReservationCredits, ttl \in ReservationTtls :
         reservation = CreditReservation_new(1, "A", amount, ttl)

NextReservation ==
    \/ consume
    \/ is_valid
    \/ check_expired
    \/ Tick(MaxReservationTicks)

SpecReservation == InitReservation /\ [][NextReservation]_vars

(* entropy/calculator.rs: the price multiplier of an EntropyAccount.  Components *)
(* in tenths, weighted totals in hundredths, multipliers in ten-thousandths.      *)

\* EntropyWeights::default
DefaultWeights ==
    [network_weight |-> NETWORK_WEIGHT, compute_weight |-> COMPUTE_WEIGHT,
     storage_weight |-> STORAGE_WEIGHT, temporal_weight |-> TEMPORAL_WEIGHT]

weighted_entropy_sum(a, weights) ==
    a.network * weights.network_weight + a.compute * weights.compute_weight
        + a.storage * weights.storage_weight + a.temporal * weights.temporal_weight

\* The multiplier with the medium range starting at 1.0
entropy_price_multiplier_stepped(a) ==
    LET total == weighted_entropy_sum(a, DefaultWeights)
        m == IF total < LOW_ENTROPY_THRESHOLD THEN 10000 + total * 5
             ELSE IF total < MED_ENTROPY_THRESHOLD THEN 10000 + (total - 200) * 10
             ELSE IF total < HIGH_ENTROPY_THRESHOLD THEN 14000 + (total - 500) * 20
             ELSE 20000 + (total - 800) * 150
    IN IF m < MAX_ENTROPY_MULTIPLIER THEN m ELSE MAX_ENTROPY_MULTIPLIER

entropy_price_multiplier(a) ==
    LET total == weighted_entropy_sum(a, DefaultWeights)
        m == IF total < LOW_ENTROPY_THRESHOLD THEN 10000 + total * 5
             ELSE IF total < MED_ENTROPY_THRESHOLD THEN 11000 + (total - 200) * 10
             ELSE IF total < HIGH_ENTROPY_THRESHOLD THEN 14000 + (total - 500) * 20
             ELSE 20000 + (total - 800) * 150
    IN IF m < MAX_ENTROPY_MULTIPLIER THEN m ELSE MAX_ENTROPY_MULTIPLIER

price ==
    /\ multiplier' = entropy_price_multiplier(account)
    /\ ret' = Ret("entropy_price_multiplier", "Ok", NoId)
    /\ UNCHANGED <<notEntropy, account>>

(* The multiplier of the accounts of a grid *)

ComponentValues == {0, 25, 50, 75, MAX_COMPONENT}
EntropyAccounts ==
    [network : ComponentValues, compute : ComponentValues, storage : ComponentValues,
     temporal : ComponentValues]

InitEntropy ==
    /\ InitBridges
    /\ Idle({"entropy"})
    /\ now = 0
    /\ topology = [n \in Nodes |-> EmptyMap]
    /\ local_balance = [n \in Nodes |-> 0]
    /\ genesis = 0
    /\ publish_fn = [n \in Nodes |-> "none"]
    /\ account \in EntropyAccounts
    /\ multiplier = 0

NextEntropy == price

SpecEntropy == InitEntropy /\ [][NextEntropy]_vars

---------------------------------------------------------------------------
(* Properties of the transfer protocol *)

\* The amounts of the published Transfer messages their recipient has not handled.
RECURSIVE InFlightFrom(_)
InFlightFrom(i) ==
    IF i > Len(net) THEN 0
    ELSE (IF /\ net[i].kind = "Transfer"
             /\ (net[i].to \in Nodes => delivered[i][net[i].to] = 0)
          THEN net[i].amount ELSE 0) + InFlightFrom(i + 1)

\* C2: with every published Transfer handled by its recipient at most once, the
\* local balances plus the amounts of the Transfers still in flight always sum
\* to the initial total of the balances.
C2_Conservation ==
    SumOver(local_balance, Nodes) + InFlightFrom(1) = genesis

\* C2's case: one Transfer has been credited by its recipient while another
\* is still in flight.
C2_Witness ==
    \E i, j \in 1..Len(net) :
        /\ net[i].kind = "Transfer" /\ net[i].to \in Nodes
        /\ delivered[i][net[i].to] = 1
        /\ net[j].kind = "Transfer" /\ net[j].to \in Nodes
        /\ delivered[j][net[j].to] = 0

\* C3: transfer answers ZeroAmount for a zero amount, else SelfTransfer for the
\* local node as recipient, else InsufficientBalance for an amount above the
\* balance, and a call that answers one of these changes neither the balance
\* nor the pending transfers and publishes nothing.
C3_ValidationNoSideEffect ==
    [][\A n \in Nodes, to \in Peers, amount \in Amounts :
         transfer(n, to, amount) =>
            /\ (amount = 0 => ret'.result = "ZeroAmount")
            /\ (amount # 0 /\ to = n => ret'.result = "SelfTransfer")
            /\ (amount # 0 /\ to # n /\ amount > local_balance[n]
                  => ret'.result = "InsufficientBalance")
            /\ (ret'.result \in {"ZeroAmount", "SelfTransfer", "InsufficientBalance"}
                  => UNCHANGED <<local_balance, pending_transfers, net>>)]_vars

\* C3's case: a transfer was refused for insufficient balance after an earlier
\* one had been accepted.
C3_Witness ==
    /\ ret.op = "transfer" /\ ret.result = "InsufficientBalance"
    /\ \E n \in Nodes : DOMAIN pending_transfers[n] # {}

\* C4: every successful transfer lowers the balance by its amount and adds an
\* entry of its own to pending_transfers (the map grows by one).
C4_EachTransferAddsEntry ==
    [][\A n \in Nodes, to \in Peers, amount \in Amounts :
         (transfer(n, to, amount) /\ ret'.result = "Ok") =>
            /\ local_balance'[n] = local_balance[n] - amount
            /\ Cardinality(DOMAIN pending_transfers'[n])
                 = Cardinality(DOMAIN pending_transfers[n]) + 1]_vars

\* C7: every successful transfer debits amount plus the entropy tax and adds
\* the tax to the revival pool's entropy_tax_collected.
C7_EntropyTaxPaid ==
    [][\A n \in Nodes, to \in Peers, amount \in Amounts :
         (transfer(n, to, amount) /\ ret'.result = "Ok") =>
            /\ local_balance'[n]
                 = local_balance[n] - (amount + calculate_entropy_tax(amount))
            /\ pool'.entropy_tax_collected
                 = pool.entropy_tax_collected + calculate_entropy_tax(amount)]_vars

\* C1: an otherwise valid transfer to a peer whose gate is Closed is refused with NodeIsolated
\* and changes neither local_balance nor pending_transfers, and a Transfer
\* handled while the gate of its sender or of its recipient is Closed changes
\* neither local_balance nor known_balances.
C1_NoTransferAcrossClosedGate ==
    [][/\ \A n \in Nodes, to \in Peers, amount \in Amounts :
            (/\ transfer(n, to, amount)
             /\ is_isolated(n, to)
             /\ amount > 0 /\ amount <= local_balance[n]) =>
               /\ ret'.result = "NodeIsolated"
               /\ UNCHANGED <<local_balance, pending_transfers>>
       /\ \A n \in Nodes, i \in 1..Len(net) :
            (/\ Deliver(n, i, 0)
             /\ net[i].kind = "Transfer"
             /\ is_isolated(n, net[i].from) \/ is_isolated(n, net[i].to)) =>
               UNCHANGED <<local_balance, known_balances>>]_vars

\* C5: handling a Confirmation whose id is pending removes that entry and no
\* other, at the handling bridge only; handling one whose id is not pending
\* leaves pending_transfers as it was; either way local_balance and
\* known_balances stay unchanged.
C5_ConfirmationRemovesExactlyThatEntry ==
    [][\A n \in Nodes, i \in 1..Len(net) :
         (Deliver(n, i, MaxRedeliveries) /\ net[i].kind = "Confirmation") =>
            /\ UNCHANGED <<local_balance, known_balances>>
            /\ \A m \in Nodes \ {n} : pending_transfers'[m] = pending_transfers[m]
            /\ IF net[i].id \in DOMAIN pending_transfers[n]
               THEN /\ DOMAIN pending_transfers'[n]
                         = DOMAIN pending_transfers[n] \ {net[i].id}
                    /\ \A id \in DOMAIN pending_transfers'[n] :
                          pending_transfers'[n][id] = pending_transfers[n][id]
               ELSE pending_transfers'[n] = pending_transfers[n]]_vars

\* C5's case: the sender of two transfers has handled the confirmation of one
\* of them twice, and the other transfer is still pending.
C5_Witness ==
    \E n \in Nodes, i \in 1..Len(net) :
        /\ net[i].kind = "Confirmation"
        /\ net[i].id.from = n
        /\ delivered[i][n] = 2
        /\ net[i].id \notin DOMAIN pending_transfers[n]
        /\ DOMAIN pending_transfers[n] # {}

\* C6: a bridge that has handled a Transfer changes neither its local_balance
\* nor its known_balances when a Transfer with the same id is delivered again.
C6_TransferCreditedOnce ==
    [][\A n \in Nodes, i \in 1..Len(net) :
         (/\ Deliver(n, i, MaxRedeliveries)
          /\ net[i].kind = "Transfer"
          /\ \E j \in 1..Len(net) : /\ net[j].kind = "Transfer"
                                     /\ net[j].id = net[i].id
                                     /\ delivered[j][n] >= 1) =>
            UNCHANGED <<local_balance, known_balances>>]_vars

---------------------------------------------------------------------------
(* Properties of the credit state machine *)

SixTransitions ==
    {<<"Active", "Reserved">>, <<"Reserved", "Consumed">>, <<"Reserved", "Released">>,
     <<"Released", "Active">>, <<"Consumed", "InRevival">>, <<"InRevival", "Active">>}

\* C8: CreditState.transition is Ok exactly for the six listed pairs and
\* InvalidTransition for every other pair, self-transitions included, and
\* TrackedCredits.transition moves the tracked state to the target on Ok and
\* leaves the tracked value as it was on InvalidTransition.
C8_OnlySixTransitions ==
    [][\A next \in CreditStates :
         tracked_transition(next) =>
            IF <<tracked.state, next>> \in SixTransitions
            THEN /\ ret'.result = "Ok"
                 /\ tracked'.state = next
                 /\ tracked'.amount = tracked.amount
            ELSE /\ ret'.result = "InvalidTransition"
                 /\ tracked' = tracked]_vars

\* C8's case: a tracked value that went through Reserved and Consumed into
\* InRevival has refused a transition.
C8_Witness ==
    /\ tracked.state = "InRevival"
    /\ ret.op = "transition" /\ ret.result = "InvalidTransition"

---------------------------------------------------------------------------
(* Properties of the septal gates *)

LegalGateStep(from, to) ==
    \/ from = to
    \/ <<from, to>> \in {<<"Open", "Closed">>, <<"Closed", "HalfOpen">>,
                         <<"HalfOpen", "Open">>, <<"HalfOpen", "Closed">>}

\* C9: the state of a gate, whether held by a bridge for a peer (a missing
\* gate counting as the Open gate its first event creates) or driven by the
\* host, changes only by Open->Closed, Closed->HalfOpen, HalfOpen->Open or
\* HalfOpen->Closed.
C9_OnlyLegalGateSteps ==
    [][/\ \A n \in Nodes, peer \in Peers :
            LegalGateStep(GateOrNew(n, peer).state, GateOrNew(n, peer)'.state)
       /\ LegalGateStep(gate.state, gate'.state)]_vars

\* C10: while record_failure is the only gate event a peer has seen at a
\* bridge, after k calls the peer is not isolated and its gate, if any, is
\* Open when k < 5, and the gate is Closed with isolation_start set and the
\* peer isolated when k >= 5, with or without a publisher.
C10_TripsAtFifthFailure ==
    \A n \in Nodes, peer \in Peers :
        gate_events[n][peer].clean =>
            IF gate_events[n][peer].k < 5
            THEN /\ GateOrNew(n, peer).state = "Open"
                 /\ ~is_isolated(n, peer)
                 /\ (gate_events[n][peer].k > 0 => peer \in DOMAIN septal_gates[n])
            ELSE /\ peer \in DOMAIN septal_gates[n]
                 /\ septal_gates[n][peer].state = "Closed"
                 /\ septal_gates[n][peer].isolation_start # None
                 /\ is_isolated(n, peer)

\* C10's case: five or more failures, nothing else, recorded for a peer by a
\* bridge that has no publisher.
C10_Witness ==
    \E n \in Nodes, peer \in Peers :
        /\ publish_fn[n] = "none"
        /\ gate_events[n][peer].clean
        /\ gate_events[n][peer].k >= 5
        /\ is_isolated(n, peer)

\* A step that gives a gate a new isolation_start timestamp without taking it
\* from Open to Closed
StampedOutsideTrip(g, h) ==
    /\ h.isolation_start # None
    /\ h.isolation_start # g.isolation_start
    /\ ~(g.state = "Open" /\ h.state = "Closed")

\* C11: a gate's isolation_start receives a timestamp only in a step that
\* takes the gate from Open to Closed; every other step leaves it as it was
\* or clears it.
C11_StampedOnlyWhenTripping ==
    [][/\ \A n \in Nodes, peer \in Peers :
            ~StampedOutsideTrip(GateOrNew(n, peer), GateOrNew(n, peer)')
       /\ ~StampedOutsideTrip(gate, gate')]_vars

\* C12: attempt_half_open turns a Closed gate whose isolation_start lies at
\* least 60 000 ms back into a HalfOpen gate, changing nothing else, and
\* returns true; in every other case it returns false and leaves the gate as
\* it was. And a HalfOpen gate always has an isolation_start at least
\* 60 000 ms in the past.
C12_HalfOpenOnlyAfterTimeout ==
    /\ [][gate_attempt_half_open =>
            IF /\ gate.state = "Closed"
               /\ \E start \in gate.isolation_start : now - start >= 60000
            THEN /\ gate' = [gate EXCEPT !.state = "HalfOpen"]
                 /\ ret'.result = "true"
            ELSE /\ gate' = gate
                 /\ ret'.result = "false"]_vars
    /\ [](gate.state = "HalfOpen" =>
            /\ gate.isolation_start # None
            /\ \A start \in gate.isolation_start : now - start >= 60000)

\* C12's case: a gate that tripped has waited out the recovery timeout and
\* attempt_half_open has just returned true on it.
C12_Witness ==
    /\ ret.op = "attempt_half_open" /\ ret.result = "true"
    /\ gate.state = "HalfOpen"

\* A health check of the host's node is due
CheckDue ==
    GateNode \in DOMAIN last_check => now - last_check[GateNode] >= 10000

\* What attempt_recovery does to a HalfOpen gate when the probe counts as passed
ProbePassed ==
    /\ gate' = [gate EXCEPT !.state = "Open", !.failure_count = 0,
                            !.isolation_start = None]
    /\ GateNode \notin DOMAIN woronin'
    /\ ret'.result = "Recovered"

\* What attempt_recovery does to a HalfOpen gate when the probe counts as failed
ProbeFailed ==
    /\ gate' = [gate EXCEPT !.state = "Closed", !.isolation_start = {now}]
    /\ woronin' = woronin
    /\ ret'.result = "RecoveryFailed"

\* attempt_recovery on an Open gate answers NotNeeded and changes nothing
NotNeededWhenOpen ==
    gate.state = "Open" =>
        /\ ret'.result = "NotNeeded"
        /\ UNCHANGED <<gate, woronin, last_check>>

\* C13, as stated: attempt_recovery on a HalfOpen gate with a check due
\* recovers the gate (Open, failure_count 0, isolation_start cleared, Woronin
\* body removed, Recovered) when the probe reports is_healthy, and fails the
\* recovery (Closed, isolation_start = now, Woronin untouched,
\* RecoveryFailed) when it does not; on an Open gate it answers NotNeeded and
\* changes nothing.
C13_AsStated ==
    [][\A h \in HealthStatuses :
         attempt_recovery(h) =>
            /\ NotNeededWhenOpen
            /\ (gate.state = "HalfOpen" /\ CheckDue) =>
                  IF h.is_healthy THEN ProbePassed ELSE ProbeFailed]_vars

\* C13, amended: the probe counts as passed only when it reports is_healthy
\* and its weighted score is below the isolation threshold; a probe that is
\* unhealthy or whose score reaches the threshold fails the recovery.
C13_RecoveryOutcome ==
    [][\A h \in HealthStatuses :
         attempt_recovery(h) =>
            /\ NotNeededWhenOpen
            /\ (gate.state = "HalfOpen" /\ CheckDue) =>
                  IF h.is_healthy /\ ~should_isolate(h)
                  THEN ProbePassed ELSE ProbeFailed]_vars

\* C13's case: a gate that had tripped and become HalfOpen has just been
\* recovered by attempt_recovery.
C13_Witness ==
    /\ ret.op = "attempt_recovery" /\ ret.result = "Recovered"
    /\ gate.state = "Open" /\ gate.last_failure # None
    /\ GateNode \in DOMAIN last_check /\ last_check[GateNode] = now

\* C14: whenever the gate of a node is Closed the node has an active Woronin
\* body, so that should_block holds for every transaction with the node as
\* sender or as receiver.
C14_ClosedGateHasWoroninBody ==
    gate.state = "Closed" =>
        /\ woronin_is_isolated(GateNode)
        /\ \A other \in Peers :
              should_block(GateNode, other) /\ should_block(other, GateNode)

---------------------------------------------------------------------------
(* Properties of handle_message *)

\* The node a credit message comes from
Originator(msg) == IF msg.kind = "Transfer" THEN msg.from ELSE msg.node_id

\* A message was dropped without an error
SilentlyDropped ==
    /\ ret'.result = "Ok"
    /\ UNCHANGED <<gradients, topology, local_balance, known_balances,
                   pending_transfers, septal_gates>>

\* C15: handle_message on a message (a Gradient within the age limit, a
\* credit message) whose originator has a Closed gate at the bridge returns
\* Ok and changes none of gradients, topology, local_balance,
\* known_balances, pending_transfers and septal_gates.
C15_ClosedPeerMessagesDropped ==
    [][/\ \A msg \in GradientInputs :
            (/\ handle_message_gradient(GateBridge, msg)
             /\ now - msg.timestamp <= 60000
             /\ is_isolated(GateBridge, msg.node_id)) => SilentlyDropped
       /\ \A msg \in CreditInputs :
            (/\ handle_message_credit(GateBridge, msg)
             /\ is_isolated(GateBridge, Originator(msg))) => SilentlyDropped]_vars

\* C16: handling a Gradient message that passed the age test returns Ok; when
\* the sender's gate is Closed it changes neither gradients nor topology, and
\* when the sender has no gate or an Open or HalfOpen one the gradient stored
\* for the sender becomes the one of the message, the gradients stored for
\* other nodes staying as they were.
C16_GradientFromClosedSenderIgnored ==
    [][\A msg \in GradientInputs :
         (handle_message_gradient(GateBridge, msg) /\ now - msg.timestamp <= 60000) =>
            /\ ret'.result = "Ok"
            /\ IF /\ msg.node_id \in DOMAIN septal_gates[GateBridge]
                  /\ septal_gates[GateBridge][msg.node_id].state = "Closed"
               THEN UNCHANGED <<gradients, topology>>
               ELSE /\ msg.node_id \in DOMAIN gradients'[GateBridge]
                    /\ gradients'[GateBridge][msg.node_id] = msg.gradient
                    /\ \A p \in DOMAIN gradients[GateBridge] \ {msg.node_id} :
                          gradients'[GateBridge][p] = gradients[GateBridge][p]]_vars

\* C16's case: a gradient stored while the sender's gate was open has survived
\* a later message with another gradient, handled while the gate was Closed.
C16_Witness ==
    /\ ret.op = "handle_message" /\ ret.result = "Ok"
    /\ is_isolated(GateBridge, ret.id.node_id)
    /\ ret.id.node_id \in DOMAIN gradients[GateBridge]
    /\ gradients[GateBridge][ret.id.node_id] # ret.id.gradient

\* C17: handle_message on a Gradient message returns MessageExpired and
\* changes neither gradients nor topology exactly when now - timestamp
\* exceeds 60 000 ms; otherwise, a timestamp ahead of the clock included, the
\* message reaches the gradient handler, which returns Ok and stores the
\* gradient unless the sender is isolated.
C17_ExpiredGradientRejected ==
    [][\A msg \in GradientInputs :
         handle_message_gradient(GateBridge, msg) =>
            IF now - msg.timestamp > 60000
            THEN /\ ret'.result = "MessageExpired"
                 /\ UNCHANGED <<gradients, topology>>
            ELSE /\ ret'.result = "Ok"
                 /\ (~is_isolated(GateBridge, msg.node_id) =>
                       /\ msg.node_id \in DOMAIN gradients'[GateBridge]
                       /\ gradients'[GateBridge][msg.node_id] = msg.gradient)]_vars

\* C17's case: a Gradient message older than the limit has been refused, its
\* gradient differing from the one stored for the sender by an accepted
\* message.
C17_Witness ==
    /\ ret.op = "handle_message" /\ ret.result = "MessageExpired"
    /\ now - ret.id.timestamp > 60000
    /\ ret.id.node_id \in DOMAIN gradients[GateBridge]
    /\ gradients[GateBridge][ret.id.node_id] # ret.id.gradient

\* C18: handle_message on a Transfer or a CreditStateSync older than
\* 60 000 ms changes no balance and no pending transfer, and on a
\* FailureReport older than that changes no gate.
C18_StaleMessagesRejected ==
    [][/\ \A msg \in CreditInputs :
            (handle_message_credit(GateBridge, msg) /\ now - msg.timestamp > 60000) =>
               UNCHANGED <<local_balance, known_balances, pending_transfers>>
       /\ \A msg \in SeptalInputs :
            (handle_message_septal(GateBridge, msg) /\ now - msg.timestamp > 60000) =>
               UNCHANGED septal_gates]_vars

\* C19: a CreditStateSync with a lower version than the one the bridge
\* handled just before for the same node does not change the known balance
\* of the node, and a Gradient message with an earlier timestamp than the one
\* the bridge stored just before for the same sender does not change the
\* gradient stored for the sender.
C19_OlderObservationNeverOverwrites ==
    [][/\ \A msg \in CreditInputs :
            (/\ handle_message_credit(GateBridge, msg)
             /\ msg.kind = "StateSync"
             /\ ret.op = "handle_state_sync"
             /\ ret.id.node_id = msg.node_id
             /\ ret.id.version > msg.version) =>
               known_balances'[GateBridge][msg.node_id]
                  = known_balances[GateBridge][msg.node_id]
       /\ \A msg \in GradientInputs :
            (/\ handle_message_gradient(GateBridge, msg)
             /\ ret.op = "handle_message" /\ ret.result = "Ok"
             /\ ret.id.node_id = msg.node_id
             /\ ~is_isolated(GateBridge, msg.node_id)
             /\ ret.id.timestamp > msg.timestamp) =>
               gradients'[GateBridge][msg.node_id]
                  = gradients[GateBridge][msg.node_id]]_vars

---------------------------------------------------------------------------
(* Properties of the decomposer *)

\* The phases in the order of a decomposition
PhaseOrder ==
    <<"CreditsFrozen", "ReservationsReleased", "StateReclaimed", "TopologyUpdated",
      "Complete">>

PhaseRank(p) == CHOOSE i \in 1..Len(PhaseOrder) : PhaseOrder[i] = p

\* C20: advance on a DecompositionState whose phase is not Complete moves the
\* phase to the one that follows it in PhaseOrder, changes nothing else of the
\* state and returns true; at Complete it returns false and leaves the state
\* as it is.  So the phase of a state is always the one reached from
\* CreditsFrozen by as many steps as advance has returned true on it: no phase
\* is skipped or revisited, and the state is at Complete exactly when advance
\* has returned true four times.
C20_AdvanceFollowsPhaseOrder ==
    /\ [][\A node \in Nodes :
            advance(node) =>
                LET rank == PhaseRank(decomposer[node].phase)
                IN IF rank < Len(PhaseOrder)
                   THEN /\ decomposer'[node]
                             = [decomposer[node] EXCEPT !.phase = PhaseOrder[rank + 1]]
                        /\ ret'.result = "true"
                   ELSE /\ decomposer'[node] = decomposer[node]
                        /\ ret'.result = "false"]_vars
    /\ [](\A node \in DOMAIN decomposer :
            /\ advances[node] + 1 \in 1..Len(PhaseOrder)
            /\ decomposer[node].phase = PhaseOrder[advances[node] + 1]
            /\ is_complete(decomposer[node].phase) <=> advances[node] = 4)

\* C20's case: a state has been advanced four times from CreditsFrozen to
\* Complete, and a further advance has just returned false
C20_Witness ==
    /\ ret.op = "advance"
    /\ ret.result = "false"
    /\ \E node \in DOMAIN decomposer :
        /\ ret.id = node
        /\ decomposer[node].phase = "Complete"
        /\ advances[node] = 4

---------------------------------------------------------------------------
(* Properties of decompose_failed_node *)

\* The phase an event belongs to: freeze, release, reclaim, complete
EventPhase(e) ==
    IF e.event_type = "ReservationExpired" THEN 2
    ELSE IF e.event_type = "GarbageCollected" THEN 3
    ELSE IF <<"phase", "freeze">> \in e.metadata THEN 1
    ELSE 4

EventsOfPhase(k) == {i \in 1..Len(events) : EventPhase(events[i]) = k}

\* The place in the context's answer of the reservation, or of the item, an
\* event speaks of
SubjectIndex(e) ==
    IF e.event_type = "ReservationExpired"
    THEN CHOOSE i \in 1..Len(context.get_held_reservations) :
            <<"reservation_id", ToString(context.get_held_reservations[i].reservation_id)>>
                \in e.metadata
    ELSE CHOOSE i \in 1..Len(context.get_stored_items) :
            <<"key", context.get_stored_items[i].key>> \in e.metadata

\* C21: decompose_failed_node returns no event and does not call
\* freeze_node_credits when confirm_failure is false; otherwise it returns one
\* NodeFailure (phase=freeze) first, one NodeFailure (phase=complete) last,
\* and between them the ReservationExpired events in reservation order
\* followed by the GarbageCollected events in item order.
C21_EventsInPhaseOrder ==
    ret.op = "decompose_failed_node" =>
        IF ~context.confirm_failure
        THEN /\ events = << >>
             /\ \A i \in 1..Len(context_calls) : context_calls[i] /= "freeze_node_credits"
        ELSE /\ EventsOfPhase(1) = {1}
             /\ EventsOfPhase(4) = {Len(events)}
             /\ events[1].event_type = "NodeFailure"
             /\ events[Len(events)].event_type = "NodeFailure"
             /\ <<"phase", "complete">> \in events[Len(events)].metadata
             /\ \A i, j \in 1..Len(events) :
                    i < j => /\ EventPhase(events[i]) <= EventPhase(events[j])
                             /\ (EventPhase(events[i]) = EventPhase(events[j])
                                    => SubjectIndex(events[i]) < SubjectIndex(events[j]))

\* C21's case: a confirmed failure of a node with two reservations and two
\* unreplicated items has been decomposed
C21_Witness ==
    /\ ret.op = "decompose_failed_node"
    /\ context.confirm_failure
    /\ Cardinality(EventsOfPhase(2)) = 2
    /\ Cardinality(EventsOfPhase(3)) = 2
    /\ Len(events) = 6

\* C22: decompose_failed_node of a confirmed failure returns exactly one
\* ReservationExpired event, with the reservation's amount, for each held
\* reservation that is not consumed and none for a consumed one, and exactly
\* one GarbageCollected event for each stored item without replicas and none
\* for an item with replicas.
C22_EventsForOpenReservationsOnly ==
    (ret.op = "decompose_failed_node" /\ context.confirm_failure) =>
        /\ \A i \in 1..Len(context.get_held_reservations) :
             LET r == context.get_held_reservations[i]
                 mine == {k \in EventsOfPhase(2) : SubjectIndex(events[k]) = i}
             IN IF r.consumed
                THEN mine = {}
                ELSE /\ Cardinality(mine) = 1
                     /\ \A k \in mine : events[k].credits = r.amount
        /\ \A i \in 1..Len(context.get_stored_items) :
             LET item == context.get_stored_items[i]
                 mine == {k \in EventsOfPhase(3) : SubjectIndex(events[k]) = i}
             IN Cardinality(mine) = IF item.has_replicas THEN 0 ELSE 1

---------------------------------------------------------------------------
(* Properties of plan_redistribution *)

\* C23: what plan_redistribution leaves unallocated, the amount available for
\* redistribution less the total of the plan, is at most 3 credits.
C23_UnallocatedAtMostThree ==
    ret.op = "plan_redistribution" =>
        available_for_redistribution(pool) - total_distributed(plan) <= 3

\* The recipients of one category all receive the same amount, the category's
\* budget divided by their number, rounded down
EvenShares(recipients, percent) ==
    \A i \in 1..Len(recipients) :
        recipients[i][2]
            = u64_div(budget_f64(available_u64(pool), percent), Len(recipients))

\* C24: the plan plan_redistribution returns totals at most the amount
\* available for redistribution, gives every recipient of a category the
\* category's budget divided by the number of its recipients, rounded down,
\* and is the empty plan when nothing is available.
C24_PlanWithinAvailable ==
    ret.op = "plan_redistribution" =>
        /\ u64_le(total_distributed_u64(plan), available_u64(pool))
        /\ EvenShares(plan.maintenance_recipients, NETWORK_MAINTENANCE_ALLOCATION)
        /\ EvenShares(plan.subsidy_recipients, NEW_NODE_SUBSIDY_ALLOCATION)
        /\ EvenShares(plan.support_recipients, LOW_BALANCE_SUPPORT_ALLOCATION)
        /\ (available_u64(pool) = << >> => plan = DefaultPlanU64)

---------------------------------------------------------------------------
(* Properties of the nexus election *)

Members(nodes) == {nodes[i] : i \in 1..Len(nodes)}

\* The orderings of the same region
Reorderings(nodes) == {other \in Regions : Members(other) = Members(nodes)}

ScoreOf(n) == calculate_election_score(build_candidate(elector, n))

\* The eligibility filter: uptime at least 0.95, bandwidth at least 10 Mbit/s,
\* reputation at least 0.7
PassesFilter(n) ==
    /\ elector[n].uptime >= 95
    /\ elector[n].bandwidth >= 10
    /\ elector[n].reputation >= 70

\* The members elect chooses among: those that pass the filter, or every
\* member when none passes
Contenders(nodes) ==
    IF \E n \in Members(nodes) : PassesFilter(n)
    THEN {n \in Members(nodes) : PassesFilter(n)}
    ELSE Members(nodes)

\* C25: the winner of elect depends on the members of the region and their
\* scores only, ties being broken by NodeId: electing over any other ordering
\* of region.nodes returns the same node.
C25_WinnerIndependentOfOrder ==
    ret.op = "elect" =>
        \A other \in Reorderings(ret.id) : ElectOf(elector, other) = ret.result

\* C26: elect returns None exactly when the region has no nodes; otherwise
\* the winner is a member of the region, passes the eligibility filter when
\* some member passes it, and when none passes is among the three members of
\* highest reputation (fewer than three members have a higher reputation).
C26_WinnerEligibleOrTopThree ==
    ret.op = "elect" =>
        /\ (ret.result = {}) <=> (ret.id = << >>)
        /\ \A winner \in ret.result :
            /\ winner \in Members(ret.id)
            /\ IF \E n \in Members(ret.id) : PassesFilter(n)
               THEN PassesFilter(winner)
               ELSE Cardinality({n \in Members(ret.id) :
                        elector[n].reputation > elector[winner].reputation}) < 3

\* C26's case: a nexus has been elected in a region of four members none of
\* which passes the filter, and one of which has a lower reputation than the
\* other three
C26_Witness ==
    /\ ret.op = "elect"
    /\ Len(ret.id) = 4
    /\ \A n \in Members(ret.id) : ~PassesFilter(n)
    /\ \E low \in Members(ret.id) :
          \A n \in Members(ret.id) \ {low} : elector[n].reputation > elector[low].reputation
    /\ ret.result /= {}

---------------------------------------------------------------------------
(* Properties of the topology *)

\* C27: every role get_role returns, for a known or an unknown node and after
\* any set_topology calls and election results, has a parent when it is a Leaf
\* and none when it is a PoteauMitan; and determine_gossip_path from a Leaf
\* does not fail and routes ViaHub with the Leaf's parent as first hop.
C27_LeafHasParent ==
    /\ ret.op = "get_role" =>
        /\ ret.result.role_type = "Leaf" => ret.result.parent /= {}
        /\ ret.result.role_type = "PoteauMitan" => ret.result.parent = {}
    /\ (ret.op = "determine_gossip_path"
            /\ RoleOf(topologies, ret.id).role_type = "Leaf") =>
        /\ ret.result.path_type = "ViaHub"
        /\ {ret.result.hops[1]} = RoleOf(topologies, ret.id).parent

---------------------------------------------------------------------------
(* Properties of the locks *)

\* C28: a task that is about to call publish, in handle_message or in
\* record_failure, holds no write guard on any cell of the bridge.
C28_NoWriteLockAcrossPublish ==
    \A t \in Tasks :
        (AtKind(t, {"publish"})
            /\ task_op[t] \in {"record_failure", "handle_gradient", "handle_election_result",
                               "handle_transfer", "handle_confirmation",
                               "handle_balance_query", "handle_healing_probe"})
            => WriteHeld(t) = {}

\* C29: a task never holds guards on two cells, and holds none while it waits
\* for a lock; and every operation a task has started returns: whenever the
\* task waits for a lock it later holds it, and it later is idle again.
C29_NoNestedLocksNoDeadlock ==
    /\ [](\A t \in Tasks :
            /\ Cardinality(Held(t)) <= 1
            /\ (\E c \in Cells : Queued(t, c)) => Held(t) = {})
    /\ \A t \in Tasks : \A c \in Cells :
            Queued(t, c) ~> (\E h \in lock_holders[c] : h.task = t)
    /\ \A t \in Tasks : (task_op[t] /= "idle") ~> (task_op[t] = "idle")

\* C29's case: a task waits in write() for a cell on which another task holds
\* the write guard while it publishes
C29_Witness ==
    \E t, u \in Tasks :
        /\ t /= u
        /\ Queued(t, "local_balance")
        /\ Instruction(t).kind = "write"
        /\ AtKind(u, {"publish"})
        /\ WriteHeld(u) = {"local_balance"}

---------------------------------------------------------------------------
(* Properties of the gradient broadcast *)

\* C30: stop aborts every broadcaster start_gradient_broadcast has started and
\* leaves broadcast_handles empty; an aborted broadcaster takes no further
\* tick, so that it publishes for no tick after the one it was aborted in; a
\* stop with no handle left changes nothing; and start_gradient_broadcast
\* without a publisher returns NotConnected and starts no task.
C30_StopAbortsBroadcasters ==
    /\ [][stop =>
            /\ broadcast_handles' = << >>
            /\ \A i \in 1..Len(broadcasters') : broadcasters'[i].aborted
            /\ (broadcast_handles = << >> => UNCHANGED <<broadcasters, net>>)]_vars
    /\ [][\A i \in 1..Len(broadcasters) :
            broadcasters[i].aborted =>
                /\ broadcasters'[i].aborted
                /\ broadcasters'[i].ticks = broadcasters[i].ticks]_vars
    /\ [](\A i \in 1..Len(broadcasters) :
            /\ broadcasters[i].published <= broadcasters[i].ticks
            /\ broadcasters[i].state = "cancelled" => broadcasters[i].aborted)
    /\ [][(start_gradient_broadcast(GateBridge) /\ publish_fn[GateBridge] = "none") =>
            /\ ret'.result = "NotConnected"
            /\ UNCHANGED <<broadcasters, broadcast_handles>>]_vars

\* C30's case: two broadcasters, one suspended and one being polled when stop
\* aborted them, are both cancelled, the second after publishing once more,
\* and stop has run again
C30_Witness ==
    /\ ret.op = "stop"
    /\ broadcast_handles = << >>
    /\ Len(broadcasters) = 2
    /\ \A i \in 1..2 : broadcasters[i].state = "cancelled"
    /\ \E i \in 1..2 : broadcasters[i].published = broadcasters[i].ticks
                        /\ broadcasters[i].ticks = 1
    /\ \E i \in 1..2 : broadcasters[i].published < broadcasters[i].ticks


---------------------------------------------------------------------------
(* Properties of CreditReservation *)

\* C31: the consumed flag of a reservation never goes back from true to false,
\* and consume on a reservation that is expired or already consumed is rejected
\* with ReservationExpired or ReservationAlreadyConsumed and changes nothing.
C31_ConsumedOnceWhileValid ==
    [][/\ reservation.consumed => reservation'.consumed
       /\ (/\ ret'.op = "consume"
           /\ now' = now
           /\ is_expired(reservation, now) \/ reservation.consumed)
            => /\ ret'.result \in {"ReservationExpired", "ReservationAlreadyConsumed"}
               /\ UNCHANGED reservation]_vars

---------------------------------------------------------------------------
(* Properties of the entropy price multiplier *)

\* C32: the multiplier of an account with components in [0, 10] lies in
\* [1.0, 5.0], is 1.0 for the all-zero account and 5.0 for the all-ten account,
\* and no account of a smaller or equal weighted total has a larger multiplier.
C32_MultiplierBoundedAndMonotone ==
    ret.op = "entropy_price_multiplier" =>
        /\ multiplier >= 10000
        /\ multiplier <= 50000
        /\ (account = zero => multiplier = 10000)
        /\ ((\A c \in {account.network, account.compute, account.storage, account.temporal} :
                c = MAX_COMPONENT) => multiplier = 50000)
        /\ \A other \in EntropyAccounts :
             weighted_entropy_sum(other, DefaultWeights)
                    <= weighted_entropy_sum(account, DefaultWeights)
                => entropy_price_multiplier(other) <= multiplier

\* C32's case: an account whose weighted total is the threshold 2.0 has been priced at 1.1
C32_Witness ==
    /\ ret.op = "entropy_price_multiplier"
    /\ weighted_entropy_sum(account, DefaultWeights) = LOW_ENTROPY_THRESHOLD
    /\ multiplier = 11000

---------------------------------------------------------------------------
(* Properties of a transfer from end to end *)

\* The i-th published message is a Transfer to a bridge
TransferInFlight(i) ==
    i <= Len(net) /\ net[i].kind = "Transfer" /\ net[i].to \in Nodes

\* C33: a transfer that succeeded is completed once its Transfer message and
\* the recipient's Confirmation are delivered: the recipient's balance grows by
\* the amount when it handles the Transfer, and the sender's pending entry is
\* eventually removed.  Until the sender handles the Confirmation of that
\* TransferId the entry stays pending, and the sender's balance is not restored:
\* a balance grows only by a Transfer the bridge receives.
C33_TransferCompletes ==
    /\ \A i \in 1..MaxTransfers * 2 :
         TransferInFlight(i)
            ~> /\ TransferInFlight(i)
               /\ delivered[i][net[i].to] > 0
               /\ net[i].id \notin DOMAIN pending_transfers[net[i].from]
    /\ [][/\ \A i \in 1..Len(net) :
               (TransferInFlight(i) /\ delivered'[i][net[i].to] > delivered[i][net[i].to])
                  => local_balance'[net[i].to] = local_balance[net[i].to] + net[i].amount
          /\ \A n \in Nodes :
               /\ \A id \in DOMAIN pending_transfers[n] \ DOMAIN pending_transfers'[n] :
                     ret' = Ret("handle_confirmation", "Ok", id)
               /\ local_balance'[n] > local_balance[n]
                     => \E i \in 1..Len(net) :
                          /\ TransferInFlight(i) /\ net[i].to = n
                          /\ delivered'[i][n] > delivered[i][n]]_vars

\* C33's case: A's transfer to B has been credited by B and confirmed to A
C33_Witness ==
    \E i \in 1..Len(net) :
        /\ TransferInFlight(i) /\ net[i].from = "A" /\ net[i].to = "B"
        /\ delivered[i]["B"] > 0
        /\ ret = Ret("handle_confirmation", "Ok", net[i].id)
        /\ net[i].id \notin DOMAIN pending_transfers["A"]

\* C35: a transfer call that returns an error, Cancelled included, leaves the
\* balance and the pending transfers of the bridge as they were before the call.
C35_FailedTransferLeavesNoTrace ==
    [][\A n \in Nodes, to \in Peers :
         (transfer(n, to, RoundtripAmount) /\ ret'.result /= "Ok")
            => UNCHANGED <<local_balance, pending_transfers>>]_vars

---------------------------------------------------------------------------
(* Properties of concurrent transfers *)

\* The amounts of the calls that returned Ok
RECURSIVE SpentBy(_)
SpentBy(tasks) ==
    IF tasks = {} THEN 0
    ELSE LET t == CHOOSE x \in tasks : TRUE
         IN (IF calls[t].result = "Ok" THEN calls[t].amount ELSE 0) + SpentBy(tasks \ {t})

\* C34: once the concurrent transfer calls of a bridge have returned, the
\* amounts of those that returned Ok sum to at most the balance before the
\* calls, and the balance is that balance less this sum.
C34_NoOverspend ==
    (\A t \in Tasks : calls[t].op = "returned") =>
        /\ SpentBy(Tasks) <= RoundtripAmount * 2
        /\ local_balance[GateBridge] = RoundtripAmount * 2 - SpentBy(Tasks)

\* C36: a bridge writes a gradient of a peer, into the gradients map or into
\* the topology, only while the gate of that peer is not Closed.
C36_NoGradientWriteBehindClosedGate ==
    [][\A t \in Tasks :
         (/\ calls[t].op = "handle_gradient"
          /\ calls'[t] /= calls[t])
            => ~is_isolated(calls[t].bridge, calls[t].msg.node_id)]_vars


\* The checker's answer passes the recovery test of attempt_recovery
PassesProbe == health_checker.is_healthy /\ ~should_isolate(health_checker)

\* What attempt_recovery answers on the gate of a run that only heals, and what
\* it must leave alone
ReadmissionStep(results_when_not_due) ==
    attempt_recovery(health_checker) /\ ~(gate.state = "Open") =>
         /\ ~should_check(GateNode) =>
                /\ ret'.result \in results_when_not_due
                /\ ret'.result = "TooSoon" => gate' = gate /\ woronin' = woronin
         /\ should_check(GateNode) /\ is_closed(gate) =>
                /\ ret'.result = IF \E start \in gate.isolation_start :
                                       now - start >= RECOVERY_TIMEOUT_MS
                                 THEN "EnteredHalfOpen" ELSE "StillClosed"
                /\ gate'.state = IF ret'.result = "EnteredHalfOpen"
                                 THEN "HalfOpen" ELSE "Closed"
         /\ should_check(GateNode) /\ is_half_open(gate) /\ PassesProbe =>
                /\ ret'.result = "Recovered"
                /\ gate'.state = "Open"
                /\ ~woronin_is_isolated(GateNode)'

\* The gate opens from HalfOpen only
OpenOnlyFromHalfOpen ==
    gate'.state = "Open" /\ gate.state # "Open" => gate.state = "HalfOpen"

\* C37, as stated: with a probe that reports is_healthy, every attempt_recovery
\* on the Closed gate answers StillClosed, then EnteredHalfOpen, then Recovered,
\* and the gate is eventually Open with its Woronin body deactivated.
C37_AsStated ==
    /\ [][ReadmissionStep({"StillClosed", "EnteredHalfOpen", "Recovered"})]_vars
    /\ [][OpenOnlyFromHalfOpen]_vars
    /\ (is_closed(gate) /\ health_checker.is_healthy)
          ~> (gate.state = "Open" /\ ~woronin_is_isolated(GateNode))

\* C37: a Closed gate whose probe reports is_healthy with a weighted score below
\* the isolation threshold, under repeated attempt_recovery calls while time
\* passes: a call made before a check is due answers TooSoon and changes
\* nothing; a due call answers StillClosed until RECOVERY_TIMEOUT has elapsed
\* since isolation_start, then EnteredHalfOpen, then Recovered; the gate is
\* eventually Open with the Woronin body deactivated, and it opens from
\* HalfOpen only.
C37_HealthyPeerReadmitted ==
    /\ [][ReadmissionStep({"TooSoon"})]_vars
    /\ [][OpenOnlyFromHalfOpen]_vars
    /\ (is_closed(gate) /\ PassesProbe)
          ~> (gate.state = "Open" /\ ~woronin_is_isolated(GateNode))

\* A gate isolated at the start was held Closed for the recovery timeout, probed
\* HalfOpen at a later check and recovered.
C37_Witness ==
    /\ ret.op = "attempt_recovery" /\ ret.result = "Recovered"
    /\ gate.state = "Open" /\ gate.isolation_start = None
    /\ ~woronin_is_isolated(GateNode)
    /\ PassesProbe
    /\ now >= RECOVERY_TIMEOUT_MS + HEALTH_CHECK_INTERVAL_MS


\* C38: transition_gate on an Open gate: an observation with should_isolate
\* adds one to failure_count, any other observation resets it to 0; the gate
\* becomes Closed exactly when that step brings failure_count to
\* FAILURE_THRESHOLD; nothing else changes the count of an Open gate or closes
\* it, and a gate becomes Open with a count of 0, so fewer than five failing
\* observations in a row leave the gate Open.
C38_ClosesOnConsecutiveFailures ==
    [][/\ \A h \in HealthStatuses :
             transition_gate(h) /\ gate.state = "Open" =>
                /\ should_isolate(h) => gate'.failure_count = gate.failure_count + 1
                /\ ~should_isolate(h) => gate'.failure_count = 0
                /\ gate'.state \in {"Open", "Closed"}
                /\ gate'.state = "Closed" <=>
                       /\ should_isolate(h)
                       /\ gate.failure_count = FAILURE_THRESHOLD - 1
                       /\ gate'.failure_count = FAILURE_THRESHOLD
       /\ gate.state = "Open" /\ gate' # gate => \E h \in HealthStatuses : transition_gate(h)
       /\ gate.state # "Open" /\ gate'.state = "Open" => gate'.failure_count = 0]_vars

\* transition_gate closed an Open gate on the fifth failing observation in a row,
\* made after time had passed.
C38_Witness ==
    /\ ret.op = "transition_gate" /\ ret.id = <<"Open", "Closed">>
    /\ gate.state = "Closed" /\ gate.failure_count = FAILURE_THRESHOLD
    /\ \E t \in gate.last_failure : t > 0


\* C39: every gate a bridge keeps: a Closed gate has isolation_start set; an
\* Open gate has failure_count below FAILURE_THRESHOLD and isolation_start
\* unset; and is_isolated answers true for a node exactly when the bridge keeps
\* a gate for it and that gate is Closed.
C39_GateFieldsAgree ==
    \A n \in Nodes :
        /\ \A peer \in DOMAIN septal_gates[n] :
              LET g == septal_gates[n][peer]
              IN /\ g.state = "Closed" => g.isolation_start # None
                 /\ g.state = "Open" =>
                       /\ g.failure_count < FAILURE_THRESHOLD
                       /\ g.isolation_start = None
        /\ \A peer \in Peers :
              is_isolated(n, peer) <=>
                  \E q \in DOMAIN septal_gates[n] :
                      q = peer /\ septal_gates[n][q].state = "Closed"

\* A bridge holds a gate that recorded failures up to the threshold, was tripped
\* and is reported isolated, at a time after the clock has advanced.
C39_Witness ==
    \E n \in Nodes, peer \in Peers :
        /\ peer \in DOMAIN septal_gates[n]
        /\ septal_gates[n][peer].state = "Closed"
        /\ septal_gates[n][peer].failure_count >= FAILURE_THRESHOLD
        /\ septal_gates[n][peer].isolation_start = Some(now)
        /\ now > 0
        /\ is_isolated(n, peer)


\* C40: for every node with an active entry in the decomposer, no step moves
\* the phase of the entry backwards or drops events it has buffered; the entry
\* leaves the decomposer only through complete_decomposition, which returns
\* the buffered events.
C40_RunningDecompositionNotReset ==
    [][\A node \in DOMAIN decomposer :
          LET before == decomposer[node]
          IN IF node \in DOMAIN decomposer'
             THEN LET after == decomposer'[node]
                  IN /\ PhaseRank(after.phase) >= PhaseRank(before.phase)
                     /\ Len(after.events_emitted) >= Len(before.events_emitted)
                     /\ SubSeq(after.events_emitted, 1, Len(before.events_emitted))
                           = before.events_emitted
             ELSE ret' = Ret("complete_decomposition", "Some", before.events_emitted)]_vars

====
